---- MODULE Spec2Model ----
(***************************************************************************)
(* Model of the audio proxy function (src/audio-proxy/src/main.ts).  The   *)
(* file holds two revisions of the same endpoint, each an `export default` *)
(* handler: the streaming passthrough ("stream") and the caching resolver  *)
(* ("resolve").  A deployment runs one of them; invocations of the         *)
(* deployed handler run concurrently and interleave at their awaits.       *)
(*                                                                         *)
(* Strings are sequences of fragments: a fragment is a piece of text that  *)
(* the operations below never split ("https://", a host label, ".", a run  *)
(* of digits, ...).  No fragment used here is a substring of another, so   *)
(* suffix and substring tests on the fragment sequence agree with the      *)
(* tests on the text.                                                      *)
(***************************************************************************)
EXTENDS Integers, Sequences, FiniteSets, TLC

\* Number of invocation slots of the deployed handler.
MaxInv == 2

Inv == 1..MaxInv

Variants == {"stream", "resolve"}

-----------------------------------------------------------------------------
(* Strings                                                                 *)

EndsWith(s, t) ==
    /\ Len(t) <= Len(s)
    /\ SubSeq(s, Len(s) - Len(t) + 1, Len(s)) = t

Dot == "."

JamendoCom == <<"jamendo", Dot, "com">>

\* main.ts:28-33
ALLOWED_DOMAINS_stream ==
    << <<"prod-1", Dot, "storage", Dot>> \o JamendoCom,
       <<"storage", Dot>> \o JamendoCom,
       <<"mp3l", Dot>> \o JamendoCom,
       <<"mp3d", Dot>> \o JamendoCom >>

\* Faulty variant: one of the origins of the streaming revision left out.
ALLOWED_DOMAINS_resolve_short ==
    << <<"prod-1", Dot, "storage", Dot>> \o JamendoCom,
       <<"storage", Dot>> \o JamendoCom,
       <<"mp3d", Dot>> \o JamendoCom,
       <<"fra", Dot, "cloud", Dot, "appwrite", Dot, "io">>,
       <<"cloud", Dot, "appwrite", Dot, "io">>,
       <<"audioos", Dot, "appwrite", Dot, "network">> >>

\* main.ts:148-156
ALLOWED_DOMAINS_resolve ==
    << <<"prod-1", Dot, "storage", Dot>> \o JamendoCom,
       <<"storage", Dot>> \o JamendoCom,
       <<"mp3l", Dot>> \o JamendoCom,
       <<"mp3d", Dot>> \o JamendoCom,
       <<"fra", Dot, "cloud", Dot, "appwrite", Dot, "io">>,
       <<"cloud", Dot, "appwrite", Dot, "io">>,
       <<"audioos", Dot, "appwrite", Dot, "network">> >>

ALLOWED_DOMAINS(v) ==
    IF v = "stream" THEN ALLOWED_DOMAINS_stream ELSE ALLOWED_DOMAINS_resolve

\* ALLOWED_DOMAINS.some(domain => url.hostname.endsWith(domain))
DomainAllowed(domains, hostname) ==
    \E d \in 1..Len(domains) : EndsWith(hostname, domains[d])

-----------------------------------------------------------------------------
(* decodeURIComponent                                                      *)

\* Escape sequences that are not valid percent-encoded UTF-8: URIError.
MalformedEscapes == {"%", "%E0%A4%A"}

DecodeFragment(f) ==
    CASE f = "https%3A%2F%2F" -> "https://"
      [] f = "%2Ftrack%2F"    -> "/track/"
      [] f = "%2Fmp3"         -> "/mp3"
      [] f = "%2Fa.mp3"       -> "/a.mp3"
      [] f = "%3F"            -> "?"
      [] f = "trackid%3D"     -> "trackid="
      [] f = "%26"            -> "&"
      [] OTHER                -> f

decodeURIComponent(s) ==
    IF \E n \in 1..Len(s) : s[n] \in MalformedEscapes
    THEN [ok |-> FALSE, value |-> <<>>]
    ELSE [ok |-> TRUE, value |-> [n \in 1..Len(s) |-> DecodeFragment(s[n])]]

-----------------------------------------------------------------------------
(* new URL(decodedUrl).hostname                                            *)

Schemes == {"https://", "http://"}

HostLabels ==
    {"prod-1", "storage", "jamendo", "com", "mp3l", "mp3d", "fra", "cloud",
     "appwrite", "io", "audioos", "network", "evil", "example", "attacker",
     "net", "cdn"}

HostFragments == HostLabels \cup {Dot}

\* Index of the first fragment of s at or after n that is not part of the
\* authority (the path, query or end of the string).
RECURSIVE HostEnd(_, _)
HostEnd(s, n) ==
    IF n <= Len(s) /\ s[n] \in HostFragments THEN HostEnd(s, n + 1) ELSE n

\* The URL constructor throws TypeError on a string without a scheme or
\* with an empty host; otherwise hostname is the text between the scheme
\* and the path.  (The inputs of this model carry no userinfo and no port.)
URL(s) ==
    IF Len(s) = 0 \/ s[1] \notin Schemes \/ HostEnd(s, 2) = 2
    THEN [ok |-> FALSE, hostname |-> <<>>]
    ELSE [ok |-> TRUE, hostname |-> SubSeq(s, 2, HostEnd(s, 2) - 1)]

-----------------------------------------------------------------------------
(* Cache key derivation (resolve)                                          *)

Digits == {"12345", "678"}

\* (\d+) is greedy: the whole run of digits that starts at n.
RECURSIVE DigitRun(_, _)
DigitRun(s, n) ==
    IF n <= Len(s) /\ s[n] \in Digits
    THEN <<s[n]>> \o DigitRun(s, n + 1)
    ELSE <<>>

\* s.match(/<pattern>(\d+)/): the leftmost occurrence of the pattern text
\* that is followed by a digit; the result is the captured group, or <<>>
\* for null.
RegexMatch(s, pattern) ==
    LET hits == {n \in 1..Len(s) - 1 : s[n] = pattern /\ s[n + 1] \in Digits}
    IN  IF hits = {} THEN <<>>
        ELSE LET first == CHOOSE n \in hits : \A m \in hits : n <= m
             IN  DigitRun(s, first + 1)

\* Faulty variant: the two patterns tried in the other order.
jamendoIdMatch_swapped(decodedUrl) ==
    IF RegexMatch(decodedUrl, "trackid=") # <<>>
    THEN RegexMatch(decodedUrl, "trackid=")
    ELSE RegexMatch(decodedUrl, "/track/")

\* decodedUrl.match(/\/track\/(\d+)/) || decodedUrl.match(/trackid=(\d+)/)
jamendoIdMatch(decodedUrl) ==
    IF RegexMatch(decodedUrl, "/track/") # <<>>
    THEN RegexMatch(decodedUrl, "/track/")
    ELSE RegexMatch(decodedUrl, "trackid=")

\* crypto.createHash('md5').update(x).digest('hex'): the digest is not
\* computed; it is an injective tagging of its input (collision-free).
Md5Hex(x) == <<"md5(">> \o x \o <<")">>

\* Faulty variant: the digest taken over the origin instead of the whole URL.
FallbackId_origin(decodedUrl) ==
    Md5Hex(SubSeq(decodedUrl, 1, HostEnd(decodedUrl, 2) - 1))

\* main.ts:195, the fallback for URLs without a track id
FallbackId(decodedUrl) == Md5Hex(decodedUrl)

\* main.ts:184-196
FileId(decodedUrl) ==
    IF jamendoIdMatch(decodedUrl) # <<>>
    THEN <<"jamendo_">> \o jamendoIdMatch(decodedUrl)
    ELSE FallbackId(decodedUrl)

-----------------------------------------------------------------------------
(* Requests, upstream responses and handler responses                      *)

Null == "<null>"

Host(h) == <<"https://">> \o h

UrlTrack ==
    <<"https%3A%2F%2F", "mp3d", Dot>> \o JamendoCom \o <<"%2Ftrack%2F", "12345", "%2Fmp3">>
UrlTrackQuery ==
    Host(<<"mp3l", Dot>> \o JamendoCom) \o <<"?", "trackid=", "12345", "&", "from=app">>
UrlFile == Host(<<"storage", Dot>> \o JamendoCom) \o <<"/a.mp3">>
UrlEvil == Host(<<"evil", Dot, "example", Dot, "com">>) \o <<"/a.mp3">>
UrlSuffix ==
    Host(<<"evil", "prod-1", Dot, "storage", Dot>> \o JamendoCom \o
         <<Dot, "attacker", Dot, "net">>) \o <<"/a.mp3">>
UrlGlued == Host(<<"evil", "mp3d", Dot>> \o JamendoCom) \o <<"/a.mp3">>
UrlAppwrite == Host(<<"fra", Dot, "cloud", Dot, "appwrite", Dot, "io">>) \o <<"/a.mp3">>
UrlMalformed == <<"https%3A%2F%2F", "mp3d", Dot>> \o JamendoCom \o <<"%">>
UrlRelative == <<"mp3d", Dot>> \o JamendoCom \o <<"/a.mp3">>

Urls ==
    {UrlTrack, UrlTrackQuery, UrlFile, UrlEvil, UrlSuffix, UrlGlued,
     UrlAppwrite, UrlMalformed, UrlRelative}

Req(method, hasUrl, url, range) ==
    [method |-> method, hasUrl |-> hasUrl, url |-> url, range |-> range]

NoReq == Req("", FALSE, <<>>, Null)

RangeValue == "bytes=0-1"

\* req.query.url is absent, the empty string, or one of Urls.
QueryUrls ==
    {Req("GET", FALSE, <<>>, Null), Req("GET", TRUE, <<>>, Null)}
        \cup {Req("GET", TRUE, u, Null) : u \in Urls}

StreamRequests ==
    QueryUrls
        \cup {[r EXCEPT !.method = "OPTIONS"] :
                r \in {q \in QueryUrls :
                         q.url \in {<<>>, UrlTrack, UrlEvil, UrlMalformed}}}
        \cup {Req("GET", TRUE, UrlTrack, RangeValue),
              Req("HEAD", TRUE, UrlTrack, Null),
              Req("HEAD", TRUE, UrlTrack, RangeValue),
              Req("POST", TRUE, UrlTrack, "")}

\* The origins that only the resolving revision lists are left to the
\* validation alone; they take no part in the caching behaviour.
ResolveRequests == {q \in QueryUrls : q.url # UrlAppwrite}

\* The answer of the origin to a fetch: a network failure, or a status with
\* the headers the handlers read (Null: header not present).
Upstream(failed, status, ctype, clen, crange, aranges, body) ==
    [failed |-> failed, status |-> status, contentType |-> ctype,
     contentLength |-> clen, contentRange |-> crange,
     acceptRanges |-> aranges, body |-> body]

NoUpstream == Upstream(FALSE, 0, Null, Null, Null, Null, "")

UpFailed == Upstream(TRUE, 0, Null, Null, Null, Null, "")
Up200 == Upstream(FALSE, 200, "audio/mpeg", "4", Null, "bytes", "abcd")
Up200Bare == Upstream(FALSE, 200, Null, Null, Null, Null, "abcd")
Up206 == Upstream(FALSE, 206, "audio/mpeg", "2", "bytes 0-1/4", "bytes", "ab")
Up404 == Upstream(FALSE, 404, "text/html", "2", Null, Null, "nf")
\* An Accept-Ranges header without a value: headers.get returns "".
Up200Empty == Upstream(FALSE, 200, "audio/mpeg", "4", Null, "", "abcd")

UpstreamResponses == {UpFailed, Up200, Up200Bare, Up206, Up404, Up200Empty}

\* resolve reads only the status and the body of the upstream response.
ResolveUpstreamResponses == {UpFailed, Up200, Up404}

\* Faulty variant: every status short of a server error taken as success.
ResponseOk_lax(status) == status >= 200 /\ status <= 499

\* Response.ok
ResponseOk(status) == status >= 200 /\ status <= 299

\* main.ts:40-45
corsHeaders ==
    {<<"Access-Control-Allow-Origin", "*">>,
     <<"Access-Control-Allow-Methods", "GET, HEAD, OPTIONS">>,
     <<"Access-Control-Allow-Headers", "Range, Content-Type">>,
     <<"Access-Control-Expose-Headers", "Content-Length, Content-Range, Accept-Ranges">>}

Err(text, code) == [text |-> text, code |-> code]

NoErr == Err("", 0)

Response(status, kind, success, error, fileId, data, headers) ==
    [status |-> status, kind |-> kind, success |-> success, error |-> error,
     fileId |-> fileId, data |-> data, headers |-> headers]

NoRes == Response(0, "none", FALSE, NoErr, <<>>, "", {})

\* res.json({ success: false, error }, status, headers)
JsonError(error, status, headers) ==
    Response(status, "json", FALSE, error, <<>>, "", headers)

\* res.json({ success: true, fileId }): status 200, no extra headers
JsonFile(fileId) == Response(200, "json", TRUE, NoErr, fileId, "", {})

\* res.send(data, status, headers)
Send(data, status, headers) ==
    Response(status, "bytes", FALSE, NoErr, <<>>, data, headers)

-----------------------------------------------------------------------------
(* State                                                                   *)

VARIABLES
    variant,    \* the handler this deployment exports
    inv,        \* inv[i]: the invocation in slot i
    store,      \* keys of the blobs in bucket 'audio_files'
    parts,      \* key derivation alone: the URLs handed to it
    keys,       \* key derivation alone: what it derived
    vreq,       \* validation alone: the request handed to both revisions
    vres,       \* validation alone: what each revision answered
    playlists,          \* manage-playlists: collection 'playlists'
    playlist_tracks,    \* manage-playlists: collection 'playlist_tracks'
    pinv,               \* manage-playlists: pinv[i], the invocation in slot i
    favorites,          \* manage-favorites: collection 'favorites'
    finv,               \* manage-favorites: finv[i], the invocation in slot i
    recently_played,    \* record-history: collection 'recently_played'
    track_ids,          \* record-history: ids of the 'tracks' documents
    clock,              \* record-history: the time new Date() gives next
    hinv,               \* record-history: hinv[i], the invocation in slot i
    users,              \* admin-upload: collection 'users'
    catalog,            \* admin-upload: 'tracks', 'podcasts' and 'episodes'
    ainv                \* admin-upload: ainv[i], the invocation in slot i

plVars == <<playlists, playlist_tracks, pinv>>

favVars == <<favorites, finv>>

histVars == <<recently_played, track_ids, clock, hinv>>

admVars == <<users, catalog, ainv>>

peerVars == <<plVars, favVars, histVars, admVars>>

vars == <<variant, inv, store, parts, keys, vreq, vres, peerVars>>

keyVars == <<parts, keys, vreq, vres, peerVars>>

proxyVars == <<variant, inv, store, parts, keys, vreq, vres>>

\* The playlist manager is not part of the deployment.
NoPlaylistManager ==
    /\ playlists = {}
    /\ playlist_tracks = {}
    /\ pinv = <<>>

NoFavoritesManager ==
    /\ favorites = {}
    /\ finv = <<>>

NoHistoryTracker ==
    /\ recently_played = {}
    /\ track_ids = {}
    /\ clock = 0
    /\ hinv = <<>>

NoAdminIngestion ==
    /\ users = {}
    /\ catalog = {}
    /\ ainv = <<>>

\* None of the peer handlers is part of the deployment.
NoPeers ==
    /\ NoPlaylistManager
    /\ NoFavoritesManager
    /\ NoHistoryTracker
    /\ NoAdminIngestion

IdleInv ==
    [pc |-> "idle", req |-> NoReq, decodedUrl |-> <<>>, fileId |-> <<>>,
     probes |-> 0, probeKey |-> <<>>, probe |-> "none",
     fetches |-> 0, upReq |-> NoReq, upstream |-> NoUpstream,
     uploads |-> 0, uploadKey |-> <<>>, upload |-> "none",
     res |-> NoRes, sent |-> 0, after |-> {}]

NoKey == [derived |-> FALSE, decodedUrl |-> <<>>, fileId |-> <<>>]

Init ==
    /\ variant \in Variants
    /\ inv = [i \in Inv |-> IdleInv]
    /\ store = {}
    /\ parts = <<>>
    /\ keys = <<>>
    /\ vreq = NoReq
    /\ vres = <<>>
    /\ NoPeers

\* Slots are taken in order of arrival.
CanStart(i) ==
    /\ inv[i].pc = "idle"
    /\ \A j \in Inv : j < i => inv[j].pc # "idle"

\* The invocations for the same url parameter that have responded.
Responded(r) == {j \in Inv : inv[j].pc = "done" /\ inv[j].req.url = r.url}

\* Faulty variant: the handler returns without sending.
Respond_silent(rec, response) == [rec EXCEPT !.pc = "done"]

\* The handler returns res.json(...) / res.send(...): the invocation ends.
Respond(rec, response) ==
    [rec EXCEPT !.pc = "done", !.res = response, !.sent = @ + 1]

-----------------------------------------------------------------------------
(* Validation shared by both revisions (main.ts:52-73 and 161-173)         *)

\* Faulty variant: only an absent parameter counts as missing.
MissingUrl_absent(r) == ~r.hasUrl

\* !audioUrl: the parameter is absent or the empty string
MissingUrl(r) == ~r.hasUrl \/ r.url = <<>>

\* The try block up to the allow-list check.  error is the message of the
\* exception thrown by decodeURIComponent or new URL (status 500, from the
\* top-level catch) or the allow-list rejection (403).
ValidateUrl(domains, audioUrl) ==
    LET decoded == decodeURIComponent(audioUrl)
        url == URL(decoded.value)
    IN  IF ~decoded.ok
        THEN [status |-> 500, error |-> Err("URI malformed", 0), decodedUrl |-> <<>>]
        ELSE IF ~url.ok
        THEN [status |-> 500, error |-> Err("Invalid URL", 0), decodedUrl |-> <<>>]
        ELSE IF ~DomainAllowed(domains, url.hostname)
        THEN [status |-> 403, error |-> Err("Unauthorized domain", 0), decodedUrl |-> <<>>]
        ELSE [status |-> 0, error |-> NoErr, decodedUrl |-> decoded.value]

-----------------------------------------------------------------------------
(* The streaming revision (main.ts:35-142)                                 *)

\* Faulty variant: the preflight answered only after the url check.
IsPreflight_late(r) == r.method = "OPTIONS" /\ r.hasUrl /\ r.url # <<>>

\* main.ts:48
IsPreflight(r) == r.method = "OPTIONS"

\* Faulty variant: the upstream method is always GET.
StreamUpstreamRequest_get(r, decodedUrl) ==
    Req("GET", TRUE, decodedUrl,
        IF r.range # Null /\ r.range # "" THEN r.range ELSE Null)

\* main.ts:78-91: the upstream request
StreamUpstreamRequest(r, decodedUrl) ==
    Req(IF r.method = "HEAD" THEN "HEAD" ELSE "GET", TRUE, decodedUrl,
        IF r.range # Null /\ r.range # "" THEN r.range ELSE Null)

\* main.ts:48-73 and 133-141: the response sent before any fetch, NoRes
\* when the request passes the checks.
StreamEarlyResponse(r) ==
    LET v == ValidateUrl(ALLOWED_DOMAINS_stream, r.url)
    IN  IF IsPreflight(r)
        THEN Send("", 204, corsHeaders)
        ELSE IF MissingUrl(r)
        THEN JsonError(Err("Missing url parameter", 0), 400, corsHeaders)
        ELSE IF v.status # 0
        THEN JsonError(v.error, v.status, corsHeaders)
        ELSE NoRes

StreamStart(i, r) ==
    /\ variant = "stream"
    /\ CanStart(i)
    /\ r \in StreamRequests
    /\ LET rec == [inv[i] EXCEPT !.req = r, !.after = Responded(r)]
           v == ValidateUrl(ALLOWED_DOMAINS_stream, r.url)
       IN  inv' = [inv EXCEPT ![i] =
             IF StreamEarlyResponse(r) # NoRes
             THEN Respond(rec, StreamEarlyResponse(r))
             ELSE [rec EXCEPT !.pc = "fetch", !.decodedUrl = v.decodedUrl,
                              !.fetches = @ + 1,
                              !.upReq = StreamUpstreamRequest(r, v.decodedUrl)]]
    /\ UNCHANGED <<variant, store, keyVars>>

Truthy(h) == h # Null /\ h # ""

\* Faulty variant: Content-Range is not forwarded.
responseHeaders_noRange(up) ==
    corsHeaders
        \cup {<<"Content-Type",
                IF Truthy(up.contentType) THEN up.contentType ELSE "audio/mpeg">>,
              <<"Cache-Control", "public, max-age=86400">>}
        \cup (IF Truthy(up.contentLength)
              THEN {<<"Content-Length", up.contentLength>>} ELSE {})
        \cup (IF Truthy(up.acceptRanges)
              THEN {<<"Accept-Ranges", up.acceptRanges>>} ELSE {})

\* main.ts:102-122
responseHeaders(up) ==
    corsHeaders
        \cup {<<"Content-Type",
                IF Truthy(up.contentType) THEN up.contentType ELSE "audio/mpeg">>,
              <<"Cache-Control", "public, max-age=86400">>}
        \cup (IF Truthy(up.contentLength)
              THEN {<<"Content-Length", up.contentLength>>} ELSE {})
        \cup (IF Truthy(up.contentRange)
              THEN {<<"Content-Range", up.contentRange>>} ELSE {})
        \cup (IF Truthy(up.acceptRanges)
              THEN {<<"Accept-Ranges", up.acceptRanges>>} ELSE {})

\* Faulty variant: every status other than 200 taken as an upstream error.
StreamUpstreamError_not200(status) == status # 200

\* main.ts:93
StreamUpstreamError(status) == ~ResponseOk(status) /\ status # 206

\* Faulty variant: the streaming revision also stores the bytes it serves.
StreamFetchReturn_caching(i, up) ==
    /\ variant = "stream"
    /\ inv[i].pc = "fetch"
    /\ up \in UpstreamResponses
    /\ LET rec == [inv[i] EXCEPT !.upstream = up]
       IN  inv' = [inv EXCEPT ![i] =
             IF up.failed
             THEN Respond(rec, JsonError(Err("fetch failed", 0), 500, corsHeaders))
             ELSE IF StreamUpstreamError(up.status)
             THEN Respond(rec, JsonError(Err("Upstream error: ", up.status),
                                         up.status, corsHeaders))
             ELSE Respond(rec, Send(up.body, up.status, responseHeaders(up)))]
    /\ store' = IF up.failed \/ StreamUpstreamError(up.status)
                THEN store ELSE store \cup {FileId(inv[i].decodedUrl)}
    /\ UNCHANGED <<variant, keyVars>>

\* main.ts:88-141: the fetch settles
StreamFetchReturn(i, up) ==
    /\ variant = "stream"
    /\ inv[i].pc = "fetch"
    /\ up \in UpstreamResponses
    /\ LET rec == [inv[i] EXCEPT !.upstream = up]
       IN  inv' = [inv EXCEPT ![i] =
             IF up.failed
             THEN Respond(rec, JsonError(Err("fetch failed", 0), 500, corsHeaders))
             ELSE IF StreamUpstreamError(up.status)
             THEN Respond(rec, JsonError(Err("Upstream error: ", up.status),
                                         up.status, corsHeaders))
             ELSE Respond(rec, Send(up.body, up.status, responseHeaders(up)))]
    /\ UNCHANGED <<variant, store, keyVars>>

-----------------------------------------------------------------------------
(* The resolving revision (main.ts:160-250)                                *)

\* main.ts:163-173 and 245-249: the response sent before any store call,
\* NoRes when the request passes the checks.
ResolveEarlyResponse(r) ==
    LET v == ValidateUrl(ALLOWED_DOMAINS_resolve, r.url)
    IN  IF MissingUrl(r)
        THEN JsonError(Err("Missing url parameter", 0), 400, {})
        ELSE IF v.status # 0
        THEN JsonError(v.error, v.status, {})
        ELSE NoRes

ResolveStart(i, r) ==
    /\ variant = "resolve"
    /\ CanStart(i)
    /\ r \in ResolveRequests
    /\ LET rec == [inv[i] EXCEPT !.req = r, !.after = Responded(r)]
           v == ValidateUrl(ALLOWED_DOMAINS_resolve, r.url)
       IN  inv' = [inv EXCEPT ![i] =
             IF ResolveEarlyResponse(r) # NoRes
             THEN Respond(rec, ResolveEarlyResponse(r))
             ELSE [rec EXCEPT !.pc = "probe", !.probes = @ + 1,
                              !.decodedUrl = v.decodedUrl,
                              !.fileId = FileId(v.decodedUrl),
                              !.probeKey = FileId(v.decodedUrl)]]
    /\ UNCHANGED <<variant, store, keyVars>>

\* storage.getFile(BUCKET_ID, key) resolves when the blob exists and rejects
\* with not-found when it does not; any call may instead reject with a
\* storage error (network, permissions, server fault).
ProbeOutcomes(key) ==
    (IF key \in store THEN {"found"} ELSE {"notfound"}) \cup {"error"}

\* Faulty variant: the return in the try block is missing.
CacheHit_never(outcome) == FALSE

\* main.ts:199-205: the try block returns on success; the catch takes every
\* rejection as a miss.
CacheHit(outcome) == outcome = "found"

ResolveProbeReturn(i, outcome) ==
    /\ variant = "resolve"
    /\ inv[i].pc = "probe"
    /\ outcome \in ProbeOutcomes(inv[i].probeKey)
    /\ LET rec == [inv[i] EXCEPT !.probe = outcome]
       IN  inv' = [inv EXCEPT ![i] =
             IF CacheHit(outcome)
             THEN Respond(rec, JsonFile(rec.fileId))
             ELSE [rec EXCEPT !.pc = "fetch", !.fetches = @ + 1,
                              !.upReq = Req("GET", TRUE, rec.decodedUrl, Null)]]
    /\ UNCHANGED <<variant, store, keyVars>>

\* Faulty variant: the blob written under the digest of the URL while the
\* probe looks under fileId.
UploadKey_digest(fileId, decodedUrl) == Md5Hex(decodedUrl)

\* main.ts:233: the id passed to createFile
UploadKey(fileId, decodedUrl) == fileId

\* Faulty variant: a fetch that failed is issued again.
ResolveFetchReturn_retry(i, up) ==
    /\ variant = "resolve"
    /\ inv[i].pc = "fetch"
    /\ up \in ResolveUpstreamResponses
    /\ LET rec == [inv[i] EXCEPT !.upstream = up]
       IN  inv' = [inv EXCEPT ![i] =
             IF up.failed
             THEN [rec EXCEPT !.fetches = @ + 1]
             ELSE IF ~ResponseOk(up.status)
             THEN Respond(rec, JsonError(Err("Upstream error: ", up.status), 500, {}))
             ELSE [rec EXCEPT !.pc = "upload", !.uploads = @ + 1,
                              !.uploadKey = UploadKey(rec.fileId, rec.decodedUrl)]]
    /\ UNCHANGED <<variant, store, keyVars>>

\* main.ts:208-236: the fetch settles
ResolveFetchReturn(i, up) ==
    /\ variant = "resolve"
    /\ inv[i].pc = "fetch"
    /\ up \in ResolveUpstreamResponses
    /\ LET rec == [inv[i] EXCEPT !.upstream = up]
       IN  inv' = [inv EXCEPT ![i] =
             IF up.failed
             THEN Respond(rec, JsonError(Err("fetch failed", 0), 500, {}))
             ELSE IF ~ResponseOk(up.status)
             THEN Respond(rec, JsonError(Err("Upstream error: ", up.status), 500, {}))
             ELSE [rec EXCEPT !.pc = "upload", !.uploads = @ + 1,
                              !.uploadKey = UploadKey(rec.fileId, rec.decodedUrl)]]
    /\ UNCHANGED <<variant, store, keyVars>>

\* createFile resolves ("ok") or rejects with the message of a store error.
StoreErrors == {"Storage unavailable"}

UploadOutcomes == {"ok"} \cup StoreErrors

\* Faulty variant: the catch logs and does not re-throw.
AfterUpload_swallow(fileId, outcome) == JsonFile(fileId)

\* main.ts:238-241 and 243: the catch logs and re-throws; the top-level
\* catch answers 500 with the message of the store error.
AfterUpload(fileId, outcome) ==
    IF outcome = "ok"
    THEN JsonFile(fileId)
    ELSE JsonError(Err(outcome, 0), 500, {})

\* Faulty variant: a successful createFile leaves no blob behind.
ResolveUploadReturn_lost(i, outcome) ==
    /\ variant = "resolve"
    /\ inv[i].pc = "upload"
    /\ outcome \in UploadOutcomes
    /\ inv' = [inv EXCEPT ![i] =
                 Respond([@ EXCEPT !.upload = outcome],
                         AfterUpload(@.fileId, outcome))]
    /\ store' = store
    /\ UNCHANGED <<variant, keyVars>>

\* main.ts:231-249: createFile settles
ResolveUploadReturn(i, outcome) ==
    /\ variant = "resolve"
    /\ inv[i].pc = "upload"
    /\ outcome \in UploadOutcomes
    /\ inv' = [inv EXCEPT ![i] =
                 Respond([@ EXCEPT !.upload = outcome],
                         AfterUpload(@.fileId, outcome))]
    /\ store' = IF outcome = "ok" THEN store \cup {inv[i].uploadKey} ELSE store
    /\ UNCHANGED <<variant, keyVars>>

-----------------------------------------------------------------------------

Next ==
    \/ \E i \in Inv, r \in StreamRequests : StreamStart(i, r)
    \/ \E i \in Inv, up \in UpstreamResponses : StreamFetchReturn(i, up)
    \/ \E i \in Inv, r \in ResolveRequests : ResolveStart(i, r)
    \/ \E i \in Inv, o \in {"found", "notfound", "error"} : ResolveProbeReturn(i, o)
    \/ \E i \in Inv, up \in ResolveUpstreamResponses : ResolveFetchReturn(i, up)
    \/ \E i \in Inv, o \in UploadOutcomes : ResolveUploadReturn(i, o)

Spec == Init /\ [][Next]_vars

\* The external call invocation i awaits settles (fetch, getFile,
\* createFile): it resolves or rejects.
Settle(i) ==
    \/ \E up \in UpstreamResponses : StreamFetchReturn(i, up)
    \/ \E o \in {"found", "notfound", "error"} : ResolveProbeReturn(i, o)
    \/ \E up \in ResolveUpstreamResponses : ResolveFetchReturn(i, up)
    \/ \E o \in UploadOutcomes : ResolveUploadReturn(i, o)

-----------------------------------------------------------------------------
(* The cache key derivation alone (main.ts:168 and 184-196), applied to    *)
(* URLs assembled from a host, a path and a query.                         *)

\* A path or a query, with the track id it embeds (<<>>: none).
Piece(text, id) == [text |-> text, id |-> id]

Paths ==
    {Piece(<<"/a.mp3">>, <<>>),
     Piece(<<"/track/", "/a.mp3">>, <<>>),
     Piece(<<"/track/", "12345", "/mp3">>, <<"12345">>),
     Piece(<<"/track/", "678", "/mp3">>, <<"678">>)}

Queries ==
    {Piece(<<>>, <<>>),
     Piece(<<"?", "from=app">>, <<>>),
     Piece(<<"?", "trackid=", "12345">>, <<"12345">>),
     Piece(<<"?", "from=app", "&", "trackid=", "12345">>, <<"12345">>),
     Piece(<<"?", "trackid=", "678", "&", "from=app">>, <<"678">>)}

KeyHosts == {<<"mp3d", Dot>> \o JamendoCom, <<"storage", Dot>> \o JamendoCom}

UrlParts ==
    [host : KeyHosts, path : Paths, query : Queries, encoded : BOOLEAN]

\* The URL the client means.
Compose(p) == Host(p.host) \o p.path.text \o p.query.text

\* encodeURIComponent on the client, the inverse of DecodeFragment.
EncodeFragment(f) ==
    CASE f = "https://" -> "https%3A%2F%2F"
      [] f = "/track/"  -> "%2Ftrack%2F"
      [] f = "/mp3"     -> "%2Fmp3"
      [] f = "/a.mp3"   -> "%2Fa.mp3"
      [] f = "?"        -> "%3F"
      [] f = "trackid=" -> "trackid%3D"
      [] f = "&"        -> "%26"
      [] OTHER          -> f

\* The value of the url parameter for p.
QueryUrl(p) ==
    IF p.encoded
    THEN [n \in 1..Len(Compose(p)) |-> EncodeFragment(Compose(p)[n])]
    ELSE Compose(p)

KeyInit ==
    /\ variant = "resolve"
    /\ inv = [i \in Inv |-> IdleInv]
    /\ store = {}
    /\ parts \in [1..2 -> UrlParts]
    /\ keys = [n \in 1..2 |-> NoKey]
    /\ vreq = NoReq
    /\ vres = <<>>
    /\ NoPeers

DeriveKey(n) ==
    /\ ~keys[n].derived
    /\ LET decodedUrl == decodeURIComponent(QueryUrl(parts[n])).value
       IN  keys' = [keys EXCEPT ![n] =
                      [derived |-> TRUE, decodedUrl |-> decodedUrl,
                       fileId |-> FileId(decodedUrl)]]
    /\ UNCHANGED <<variant, inv, store, parts, vreq, vres, peerVars>>

KeyNext == \E n \in 1..2 : DeriveKey(n)

KeySpec == KeyInit /\ [][KeyNext]_vars

-----------------------------------------------------------------------------
(* The validation alone (main.ts:37-73 and 161-173): one request handed to *)
(* both revisions.                                                         *)

ValHosts ==
    {ALLOWED_DOMAINS_stream[d] : d \in 1..Len(ALLOWED_DOMAINS_stream)}
        \cup {<<"fra", Dot, "cloud", Dot, "appwrite", Dot, "io">>,
              <<"cloud", Dot, "appwrite", Dot, "io">>,
              <<"audioos", Dot, "appwrite", Dot, "network">>}
        \cup {<<"evil", Dot, "example", Dot, "com">>,
              <<"evil", "prod-1", Dot, "storage", Dot>> \o JamendoCom \o
                  <<Dot, "attacker", Dot, "net">>,
              <<"evil", "mp3d", Dot>> \o JamendoCom,
              <<"cdn", Dot, "storage", Dot>> \o JamendoCom,
              <<"evil", "cloud", Dot, "appwrite", Dot, "io">>}

\* The url parameter for a host: plain, percent-encoded, without a scheme,
\* and with a broken escape.
ValUrls ==
    UNION {{Host(h) \o <<"/a.mp3">>,
            <<"https%3A%2F%2F">> \o h \o <<"%2Fa.mp3">>,
            h \o <<"/a.mp3">>,
            Host(h) \o <<"/a.mp3", "%">>} : h \in ValHosts}

ValRequests ==
    {Req("GET", FALSE, <<>>, Null), Req("GET", TRUE, <<>>, Null)}
        \cup {Req("GET", TRUE, u, Null) : u \in ValUrls}

Unchecked == [checked |-> FALSE, res |-> NoRes]

ValInit ==
    /\ variant \in Variants
    /\ inv = [i \in Inv |-> IdleInv]
    /\ store = {}
    /\ parts = <<>>
    /\ keys = <<>>
    /\ vreq \in ValRequests
    /\ vres = [v \in Variants |-> Unchecked]
    /\ NoPeers

EarlyResponse(v, r) ==
    IF v = "stream" THEN StreamEarlyResponse(r) ELSE ResolveEarlyResponse(r)

Validate(v) ==
    /\ ~vres[v].checked
    /\ vres' = [vres EXCEPT ![v] = [checked |-> TRUE, res |-> EarlyResponse(v, vreq)]]
    /\ UNCHANGED <<variant, inv, store, parts, keys, vreq, peerVars>>

ValNext == \E v \in Variants : Validate(v)

ValSpec == ValInit /\ [][ValNext]_vars

-----------------------------------------------------------------------------
(* Properties                                                              *)

Started(i) == inv[i].pc # "idle"

Done(i) == inv[i].pc = "done"

\* The hostname of the decoded URL of a request, <<>> when the parameter is
\* missing, does not decode or is not an absolute URL.
HostnameOf(r) ==
    LET decoded == decodeURIComponent(r.url)
    IN  IF MissingUrl(r) \/ ~decoded.ok THEN <<>> ELSE URL(decoded.value).hostname

\* hostname is an entry of the allow-list or a subdomain of one.
InAllowedOriginSet(domains, hostname) ==
    \E d \in 1..Len(domains) :
        \/ hostname = domains[d]
        \/ EndsWith(hostname, <<Dot>> \o domains[d])

\* C1: a request (preflights aside) whose decoded URL has a hostname outside
\* the allow-list of the deployed revision, look-alikes glued onto an
\* allowed name included, is answered 403 "Unauthorized domain" with no
\* fetch and no blob-store call.
C1_ForbiddenOrigin ==
    \A i \in Inv :
        (/\ Started(i)
         /\ inv[i].req.method # "OPTIONS"
         /\ HostnameOf(inv[i].req) # <<>>
         /\ ~InAllowedOriginSet(ALLOWED_DOMAINS(variant), HostnameOf(inv[i].req)))
        => /\ Done(i)
           /\ inv[i].res.status = 403
           /\ ~inv[i].res.success
           /\ inv[i].res.error.text = "Unauthorized domain"
           /\ inv[i].fetches = 0
           /\ inv[i].probe = "none" /\ inv[i].probeKey = <<>>
           /\ inv[i].uploads = 0

\* The invocations that have called createFile with key k.
Writers(k) == {i \in Inv : inv[i].uploads > 0 /\ inv[i].uploadKey = k}

WrittenKeys == {inv[i].uploadKey : i \in {j \in Inv : inv[j].uploads > 0}}

\* C2 as stated: over all interleavings the blob store receives at most
\* one createFile per cache key.
C2_OneWritePerKey == \A k \in WrittenKeys : Cardinality(Writers(k)) <= 1

\* C2 as amended: an invocation calls createFile at most once, under the
\* key it probed, and only after its own probe did not find a blob under
\* that key; every blob in the store was written by such an invocation.
C2_WriteOnlyAfterOwnMiss ==
    /\ \A i \in Inv :
          inv[i].uploads > 0 =>
            /\ inv[i].uploads = 1
            /\ inv[i].uploadKey = inv[i].probeKey
            /\ inv[i].probe \in {"notfound", "error"}
    /\ \A k \in store :
          \E i \in Writers(k) : inv[i].upload = "ok" /\ inv[i].probe # "found"

\* Two invocations whose probes both missed have both written the key.
C2_Witness ==
    \E i, j \in Inv :
        /\ i # j
        /\ inv[i].probe = "notfound" /\ inv[j].probe = "notfound"
        /\ inv[i].upload = "ok" /\ inv[j].upload = "ok"
        /\ inv[i].uploadKey = inv[j].uploadKey
        /\ inv[i].uploadKey \in store

\* C3: two resolve calls in sequence for the same URL, the first one
\* fetching and storing with success, make one fetch and one write in
\* total, and the second is a cache hit with the payload of the first.
C3_SecondCallIsHit ==
    \A i, j \in Inv :
        (/\ i # j
         /\ variant = "resolve"
         /\ Done(i) /\ Done(j)
         /\ i \in inv[j].after
         /\ inv[i].req.url = inv[j].req.url
         /\ inv[i].upload = "ok")
        => /\ inv[i].fetches + inv[j].fetches = 1
           /\ inv[i].uploads + inv[j].uploads = 1
           /\ inv[j].probe = "found"
           /\ inv[i].res.success /\ inv[i].res.status = 200
           /\ inv[j].res = inv[i].res

\* C4: an invocation whose probe finds the blob answers 200
\* {success:true, fileId: key} with no fetch and no write, and the step
\* leaves the blob store as it was.
C4_CacheHitFastPath ==
    /\ [](\A i \in Inv :
            inv[i].probe = "found" =>
              /\ Done(i)
              /\ inv[i].res.status = 200 /\ inv[i].res.kind = "json"
              /\ inv[i].res.success
              /\ inv[i].res.fileId = inv[i].probeKey
              /\ inv[i].res.fileId = inv[i].fileId
              /\ inv[i].fetches = 0
              /\ inv[i].uploads = 0 /\ inv[i].upload = "none")
    /\ [][\A i \in Inv :
            (inv[i].probe # "found" /\ inv'[i].probe = "found") => store' = store]_vars

C4_Witness ==
    \E i \in Inv : inv[i].probe = "found" /\ Done(i) /\ inv[i].fileId \in store

\* C5: a failed upload ends the invocation with 500 {success:false, error:
\* the store error}, never with a fileId; success with a fileId is answered
\* only when a blob is stored under it, found by the probe or written by
\* this invocation.
C5_UploadFailureIsFailure ==
    \A i \in Inv :
        /\ inv[i].upload \in StoreErrors =>
             /\ Done(i)
             /\ inv[i].res.status = 500 /\ inv[i].res.kind = "json"
             /\ ~inv[i].res.success
             /\ inv[i].res.fileId = <<>>
             /\ inv[i].res.error.text = inv[i].upload
        /\ (Done(i) /\ inv[i].res.success) =>
             /\ inv[i].res.fileId = inv[i].fileId
             /\ inv[i].res.fileId \in store
             /\ inv[i].probe = "found" \/ inv[i].upload = "ok"

\* One invocation failed its upload and a later one stored the blob.
C5_Witness ==
    \E i, j \in Inv :
        /\ inv[i].upload \in StoreErrors /\ Done(i)
        /\ inv[j].upload = "ok" /\ Done(j)
        /\ inv[i].fileId = inv[j].fileId

\* C6: an invocation whose probe fails with a storage error answers 500
\* and neither fetches the origin nor writes the blob store.
C6_ProbeErrorIs500 ==
    \A i \in Inv :
        inv[i].probe = "error" =>
          /\ Done(i)
          /\ inv[i].res.status = 500
          /\ inv[i].fetches = 0
          /\ inv[i].uploads = 0

\* C7: in resolve an upstream answer with a status outside 200..299 ends
\* the invocation: no write, success:false, and the error carries the
\* upstream status.
C7_UpstreamFailureTerminal ==
    \A i \in Inv :
        (/\ variant = "resolve"
         /\ inv[i].upstream # NoUpstream
         /\ ~inv[i].upstream.failed
         /\ inv[i].upstream.status < 200 \/ inv[i].upstream.status > 299)
        => /\ Done(i)
           /\ inv[i].uploads = 0 /\ inv[i].upload = "none"
           /\ inv[i].res.kind = "json"
           /\ ~inv[i].res.success
           /\ inv[i].res.fileId = <<>>
           /\ inv[i].res.error = Err("Upstream error: ", inv[i].upstream.status)
           /\ inv[i].fileId \in store => \E j \in Inv \ {i} : inv[j].upload = "ok"

C7_Witness ==
    \E i \in Inv :
        /\ variant = "resolve"
        /\ Done(i)
        /\ inv[i].upstream.status = 404
        /\ inv[i].res.error.code = 404

\* The track id a URL embeds: the one of the path, else the one of the query.
EmbeddedId(p) == IF p.path.id # <<>> THEN p.path.id ELSE p.query.id

\* C8: the key of a URL that embeds a track id (in the path first, else in
\* the query) is "jamendo_" followed by that id, whatever the host, the
\* encoding and the other query parameters; the URL
\* https://mp3d.jamendo.com/track/12345/mp3 has the key jamendo_12345.
C8_TrackIdKey ==
    /\ \A n \in 1..2 :
          (keys[n].derived /\ EmbeddedId(parts[n]) # <<>>) =>
            keys[n].fileId = <<"jamendo_">> \o EmbeddedId(parts[n])
    /\ \A m, n \in 1..2 :
          (/\ keys[m].derived /\ keys[n].derived
           /\ EmbeddedId(parts[m]) # <<>>
           /\ EmbeddedId(parts[m]) = EmbeddedId(parts[n]))
          => keys[m].fileId = keys[n].fileId
    /\ \A n \in 1..2 :
          (/\ keys[n].derived
           /\ keys[n].decodedUrl =
                <<"https://", "mp3d", ".", "jamendo", ".", "com",
                  "/track/", "12345", "/mp3">>)
          => keys[n].fileId = <<"jamendo_", "12345">>

\* The id in the path of one encoded URL and in the query of another, with
\* a different parameter next to it: one key.
C8_Witness ==
    /\ keys[1].derived /\ keys[2].derived
    /\ parts[1].path.id = <<"12345">> /\ parts[1].query.id = <<"678">>
    /\ parts[1].encoded
    /\ parts[2].path.id = <<>> /\ parts[2].query.id = <<"12345">>
    /\ parts[2].query.text # <<"?", "trackid=", "12345">>
    /\ keys[1].fileId = <<"jamendo_", "12345">>
    /\ keys[2].fileId = keys[1].fileId

\* C9: the key of a URL that embeds no track id is the digest of the exact
\* decoded URL: equal URLs have equal keys and different URLs have
\* different keys.
C9_DigestKey ==
    /\ \A n \in 1..2 :
          (keys[n].derived /\ EmbeddedId(parts[n]) = <<>>) =>
            /\ keys[n].decodedUrl = Compose(parts[n])
            /\ keys[n].fileId = Md5Hex(Compose(parts[n]))
    /\ \A m, n \in 1..2 :
          (/\ keys[m].derived /\ keys[n].derived
           /\ EmbeddedId(parts[m]) = <<>> /\ EmbeddedId(parts[n]) = <<>>)
          => (keys[m].fileId = keys[n].fileId <=> Compose(parts[m]) = Compose(parts[n]))

\* Two URLs of one origin that differ in the query only, one of them
\* encoded: two keys.
C9_Witness ==
    /\ keys[1].derived /\ keys[2].derived
    /\ EmbeddedId(parts[1]) = <<>> /\ EmbeddedId(parts[2]) = <<>>
    /\ parts[1].host = parts[2].host /\ parts[1].path = parts[2].path
    /\ parts[1].query # parts[2].query
    /\ parts[1].encoded /\ ~parts[2].encoded
    /\ keys[1].fileId # keys[2].fileId

\* C10: the streaming revision answers every OPTIONS request with 204, an
\* empty body and the CORS headers, whatever the url parameter, and makes
\* no fetch.
C10_Preflight ==
    \A i \in Inv :
        (variant = "stream" /\ Started(i) /\ inv[i].req.method = "OPTIONS") =>
          /\ Done(i)
          /\ inv[i].res.status = 204
          /\ inv[i].res.kind = "bytes" /\ inv[i].res.data = ""
          /\ inv[i].res.headers =
               {<<"Access-Control-Allow-Origin", "*">>,
                <<"Access-Control-Allow-Methods", "GET, HEAD, OPTIONS">>,
                <<"Access-Control-Allow-Headers", "Range, Content-Type">>,
                <<"Access-Control-Expose-Headers",
                  "Content-Length, Content-Range, Accept-Ranges">>}
          /\ inv[i].fetches = 0
          /\ inv[i].upReq = NoReq

\* Preflights without a url parameter and with a malformed one, answered.
C10_Witness ==
    \E i, j \in Inv :
        /\ variant = "stream"
        /\ inv[i].req.method = "OPTIONS" /\ ~inv[i].req.hasUrl
        /\ inv[j].req.method = "OPTIONS" /\ inv[j].req.url = UrlMalformed
        /\ inv[i].res.status = 204 /\ inv[j].res.status = 204

\* C11: a request other than OPTIONS without a url parameter, or with an
\* empty one, is answered 400 {success:false, error:"Missing url
\* parameter"} by the deployed revision, with no fetch and no store call.
C11_MissingUrl ==
    \A i \in Inv :
        (/\ Started(i)
         /\ inv[i].req.method # "OPTIONS"
         /\ ~inv[i].req.hasUrl \/ inv[i].req.url = <<>>)
        => /\ Done(i)
           /\ inv[i].res.status = 400
           /\ inv[i].res.kind = "json"
           /\ ~inv[i].res.success
           /\ inv[i].res.error = Err("Missing url parameter", 0)
           /\ inv[i].fetches = 0 /\ inv[i].upReq = NoReq
           /\ inv[i].probe = "none" /\ inv[i].probeKey = <<>>
           /\ inv[i].uploads = 0

\* One request without the parameter and one with the empty string.
C11_Witness ==
    \E i, j \in Inv :
        /\ Done(i) /\ inv[i].req.method = "GET" /\ ~inv[i].req.hasUrl
        /\ Done(j) /\ inv[j].req.method = "GET" /\ inv[j].req.hasUrl
        /\ inv[j].req.url = <<>>
        /\ inv[i].res.status = 400 /\ inv[j].res.status = 400

BothChecked == vres["stream"].checked /\ vres["resolve"].checked

Rejected(v) == vres[v].res.status \in {400, 403}

\* C12 as stated: both revisions reject a url value with 400 or 403 in
\* the same cases and with the same status.
C12_SameValidation ==
    BothChecked =>
        /\ Rejected("stream") <=> Rejected("resolve")
        /\ Rejected("stream") => vres["stream"].res.status = vres["resolve"].res.status

AppwriteOrigins ==
    {<<"fra", Dot, "cloud", Dot, "appwrite", Dot, "io">>,
     <<"cloud", Dot, "appwrite", Dot, "io">>,
     <<"audioos", Dot, "appwrite", Dot, "network">>}

\* C12 as amended: both revisions make the same checks, each against its
\* own allow-list: they answer 400, and fail on a malformed url, in the
\* same cases; every url resolve rejects with 403 stream rejects with 403;
\* stream rejects with 403 a url that resolve lets pass only when its
\* hostname ends with one of the three Appwrite origins of resolve's list.
C12_ValidationUpToAppwriteOrigins ==
    BothChecked =>
        /\ vres["stream"].res.status = 400 <=> vres["resolve"].res.status = 400
        /\ vres["stream"].res.status = 500 <=> vres["resolve"].res.status = 500
        /\ vres["resolve"].res.status = 403 => vres["stream"].res.status = 403
        /\ vres["stream"].res.error = vres["resolve"].res.error
             \/ (/\ vres["stream"].res.status = 403
                 /\ vres["resolve"].res = NoRes
                 /\ \E a \in AppwriteOrigins : EndsWith(HostnameOf(vreq), a))

\* A url of an Appwrite origin: 403 from stream, accepted by resolve.
C12_Witness ==
    /\ BothChecked
    /\ HostnameOf(vreq) = <<"fra", Dot, "cloud", Dot, "appwrite", Dot, "io">>
    /\ vres["stream"].res.status = 403
    /\ vres["resolve"].res = NoRes

\* The stream invocations that have issued their fetch.
Fetching(i) == variant = "stream" /\ inv[i].fetches > 0

UpstreamMethod(method) == IF method = "HEAD" THEN "HEAD" ELSE "GET"

\* C13 as stated: the upstream request of stream carries a Range header
\* exactly when the inbound request carries one, with the same value, and
\* its method is HEAD for an inbound HEAD and GET otherwise.
C13_RangeForwarded ==
    \A i \in Inv :
        Fetching(i) =>
          /\ inv[i].upReq.range # Null <=> inv[i].req.range # Null
          /\ inv[i].req.range # Null => inv[i].upReq.range = inv[i].req.range
          /\ inv[i].upReq.method = UpstreamMethod(inv[i].req.method)

\* C13 as amended: the upstream request carries a Range header exactly
\* when the inbound request carries one with a non-empty value, with the
\* same value; the method is HEAD for an inbound HEAD and GET otherwise.
C13_NonEmptyRangeForwarded ==
    \A i \in Inv :
        Fetching(i) =>
          /\ inv[i].upReq.range # Null <=> inv[i].req.range \notin {Null, ""}
          /\ inv[i].upReq.range # Null => inv[i].upReq.range = inv[i].req.range
          /\ inv[i].upReq.method = UpstreamMethod(inv[i].req.method)
          /\ inv[i].upReq.url = inv[i].decodedUrl

\* A HEAD request with a Range header and a POST request with an empty one.
C13_Witness ==
    \E i, j \in Inv :
        /\ Fetching(i) /\ inv[i].req.method = "HEAD"
        /\ inv[i].req.range = RangeValue /\ inv[i].upReq.range = RangeValue
        /\ inv[i].upReq.method = "HEAD"
        /\ Fetching(j) /\ inv[j].req.method = "POST"
        /\ inv[j].req.range = "" /\ inv[j].upReq.range = Null
        /\ inv[j].upReq.method = "GET"

\* The stream invocations the origin has answered.
Answered(i) ==
    variant = "stream" /\ inv[i].upstream # NoUpstream /\ ~inv[i].upstream.failed

\* C14: when the origin answers, stream returns the upstream status: a
\* status outside 200..299 as an error response with that status, 206 (and
\* every other 2xx) as the body with that status.
C14_StatusPassedThrough ==
    \A i \in Inv :
        Answered(i) =>
          /\ Done(i)
          /\ inv[i].res.status = inv[i].upstream.status
          /\ (inv[i].upstream.status < 200 \/ inv[i].upstream.status > 299) =>
                /\ inv[i].res.kind = "json"
                /\ ~inv[i].res.success
                /\ inv[i].res.error = Err("Upstream error: ", inv[i].upstream.status)
          /\ (inv[i].upstream.status >= 200 /\ inv[i].upstream.status <= 299) =>
                /\ inv[i].res.kind = "bytes"
                /\ inv[i].res.data = inv[i].upstream.body
                /\ inv[i].res.error = NoErr

\* An upstream 206 passed through next to an upstream 404.
C14_Witness ==
    \E i, j \in Inv :
        /\ Answered(i) /\ inv[i].upstream.status = 206
        /\ inv[i].res.status = 206 /\ inv[i].res.kind = "bytes"
        /\ Answered(j) /\ inv[j].upstream.status = 404
        /\ inv[j].res.status = 404 /\ inv[j].res.kind = "json"

HasHeader(headers, name) == \E h \in headers : h[1] = name

\* The successful stream responses.
Streamed(i) == Answered(i) /\ Done(i) /\ inv[i].res.kind = "bytes"

CorsAndCaching(i) ==
    /\ {<<"Access-Control-Allow-Origin", "*">>,
        <<"Access-Control-Allow-Methods", "GET, HEAD, OPTIONS">>,
        <<"Access-Control-Allow-Headers", "Range, Content-Type">>,
        <<"Access-Control-Expose-Headers",
          "Content-Length, Content-Range, Accept-Ranges">>,
        <<"Cache-Control", "public, max-age=86400">>} \subseteq inv[i].res.headers
    /\ \A h \in inv[i].res.headers :
          h[1] \in {"Access-Control-Allow-Origin", "Access-Control-Allow-Methods",
                    "Access-Control-Allow-Headers", "Access-Control-Expose-Headers",
                    "Cache-Control", "Content-Type", "Content-Length",
                    "Content-Range", "Accept-Ranges"}
    /\ \A g, h \in inv[i].res.headers : g[1] = h[1] => g = h

\* C15 as stated: a successful stream response has the CORS headers, the
\* Content-Type of the origin (audio/mpeg when it has none), the 24-hour
\* Cache-Control, and each of Content-Length, Content-Range and
\* Accept-Ranges exactly when the origin sent it, with the same value.
C15_HeadersForwarded ==
    \A i \in Inv :
        Streamed(i) =>
          /\ CorsAndCaching(i)
          /\ <<"Content-Type",
               IF inv[i].upstream.contentType # Null
               THEN inv[i].upstream.contentType ELSE "audio/mpeg">> \in inv[i].res.headers
          /\ HasHeader(inv[i].res.headers, "Content-Length")
               <=> inv[i].upstream.contentLength # Null
          /\ HasHeader(inv[i].res.headers, "Content-Range")
               <=> inv[i].upstream.contentRange # Null
          /\ HasHeader(inv[i].res.headers, "Accept-Ranges")
               <=> inv[i].upstream.acceptRanges # Null

Sent(value) == value # Null /\ value # ""

\* C15 as amended: the same, with "the origin sent it" read as "the origin
\* sent it with a non-empty value": a header without a value is taken as
\* absent (and an empty Content-Type gives audio/mpeg).
C15_NonEmptyHeadersForwarded ==
    \A i \in Inv :
        Streamed(i) =>
          /\ CorsAndCaching(i)
          /\ <<"Content-Type",
               IF Sent(inv[i].upstream.contentType)
               THEN inv[i].upstream.contentType ELSE "audio/mpeg">> \in inv[i].res.headers
          /\ HasHeader(inv[i].res.headers, "Content-Length")
               <=> Sent(inv[i].upstream.contentLength)
          /\ HasHeader(inv[i].res.headers, "Content-Range")
               <=> Sent(inv[i].upstream.contentRange)
          /\ HasHeader(inv[i].res.headers, "Accept-Ranges")
               <=> Sent(inv[i].upstream.acceptRanges)
          /\ Sent(inv[i].upstream.contentLength) =>
               <<"Content-Length", inv[i].upstream.contentLength>> \in inv[i].res.headers
          /\ Sent(inv[i].upstream.contentRange) =>
               <<"Content-Range", inv[i].upstream.contentRange>> \in inv[i].res.headers
          /\ Sent(inv[i].upstream.acceptRanges) =>
               <<"Accept-Ranges", inv[i].upstream.acceptRanges>> \in inv[i].res.headers

\* A partial response with all four headers next to one with none.
C15_Witness ==
    \E i, j \in Inv :
        /\ Streamed(i) /\ inv[i].upstream = Up206
        /\ <<"Content-Range", "bytes 0-1/4">> \in inv[i].res.headers
        /\ Streamed(j) /\ inv[j].upstream = Up200Bare
        /\ <<"Content-Type", "audio/mpeg">> \in inv[j].res.headers
        /\ ~HasHeader(inv[j].res.headers, "Content-Length")

\* C16: a stream invocation makes no call to the blob store on any path,
\* and the blob store stays as it was.
C16_StreamLeavesStore ==
    variant = "stream" =>
        /\ store = {}
        /\ \A i \in Inv :
              /\ inv[i].probe = "none" /\ inv[i].probeKey = <<>>
              /\ inv[i].uploads = 0 /\ inv[i].upload = "none"
              /\ inv[i].uploadKey = <<>>

\* A stream invocation that served the bytes and one whose fetch threw.
C16_Witness ==
    \E i, j \in Inv :
        /\ variant = "stream"
        /\ Done(i) /\ inv[i].res.kind = "bytes" /\ inv[i].res.status = 200
        /\ Done(j) /\ inv[j].upstream.failed /\ inv[j].res.status = 500

\* The url parameter is present and does not decode, or does not parse as
\* an absolute URL.
Malformed(r) ==
    /\ r.hasUrl /\ r.url # <<>>
    /\ \/ ~decodeURIComponent(r.url).ok
       \/ ~URL(decodeURIComponent(r.url).value).ok

\* C17: a request (preflights aside) with a malformed url parameter is
\* answered 400 or 403, not 500, with no fetch and no store call.
C17_MalformedIsClientError ==
    \A i \in Inv :
        (Started(i) /\ inv[i].req.method # "OPTIONS" /\ Malformed(inv[i].req))
        => /\ Done(i)
           /\ inv[i].res.status \in {400, 403}
           /\ inv[i].fetches = 0
           /\ inv[i].probe = "none"
           /\ inv[i].uploads = 0

\* What an invocation has sent so far is well formed: at most one
\* response, sent when the handler returns, and a failure is a JSON body
\* {success:false, error} with a message.
OneStructuredResponse(i) ==
    /\ inv[i].sent = (IF Done(i) THEN 1 ELSE 0)
    /\ Done(i) <=> inv[i].res # NoRes
    /\ Done(i) => inv[i].res.kind \in {"json", "bytes"}
    /\ (Done(i) /\ inv[i].res.status >= 400) =>
          /\ inv[i].res.kind = "json"
          /\ ~inv[i].res.success
          /\ inv[i].res.error.text # ""
    /\ (Done(i) /\ inv[i].res.kind = "json" /\ ~inv[i].res.success) =>
          /\ inv[i].res.status >= 400
          /\ inv[i].res.error.text # ""
          /\ inv[i].res.fileId = <<>>

\* The position of an invocation in its handler.
Rank(pc) ==
    CASE pc = "idle" -> 0 [] pc = "probe" -> 1 [] pc = "fetch" -> 2
      [] pc = "upload" -> 3 [] pc = "done" -> 4

\* C18: when the awaited calls settle, every invocation ends by sending
\* exactly one response, and every failure response (decoding, parsing,
\* probing, fetching, uploading) is a structured {success:false, error}:
\* an invocation that has not responded is waiting for a call whose
\* settling the handler takes up, every step it takes moves it forward in
\* the handler, and its last step sends the one response.
C18_AlwaysResponds ==
    /\ [](\A i \in Inv :
            /\ OneStructuredResponse(i)
            /\ (Started(i) /\ ~Done(i)) => ENABLED Settle(i))
    /\ [][\A i \in Inv :
            inv'[i] # inv[i] => Rank(inv'[i].pc) > Rank(inv[i].pc)]_vars

\* Failure responses of the upload and of the decoding, both sent.
C18_Witness ==
    \E i, j \in Inv :
        /\ Done(i) /\ inv[i].upload \in StoreErrors /\ inv[i].sent = 1
        /\ Done(j) /\ inv[j].req.url = UrlMalformed /\ inv[j].sent = 1
        /\ inv[j].res.error.text = "URI malformed"

\* C19: within one resolve invocation the fetch starts only after the
\* probe has reported a miss, the upload starts only after the fetch has
\* completed with success, and the success response on a miss is sent
\* only after the upload has completed.
C19_StrictOrder ==
    \A i \in Inv :
        variant = "resolve" =>
          /\ inv[i].fetches > 0 => inv[i].probe = "notfound"
          /\ inv[i].uploads > 0 =>
                /\ inv[i].upstream # NoUpstream
                /\ ~inv[i].upstream.failed
                /\ inv[i].upstream.status \in 200..299
          /\ (/\ Done(i)
              /\ inv[i].res.kind = "json" /\ inv[i].res.success
              /\ inv[i].probe # "found")
             => inv[i].upload = "ok"

\* Two invocations for the same URL whose probes both reported not-found
\* and whose writes both succeeded.
BothMissed(i, j) ==
    /\ i # j
    /\ variant = "resolve"
    /\ Done(i) /\ Done(j)
    /\ inv[i].req.url = inv[j].req.url
    /\ inv[i].probe = "notfound" /\ inv[j].probe = "notfound"
    /\ inv[i].upload = "ok" /\ inv[j].upload = "ok"

\* C20: two resolve invocations for the same uncached URL whose probes
\* both miss each fetch the origin once and write once under the same
\* key; both answer {success:true, fileId} with that key, and the store
\* holds the blob under it.
C20_ToleratedRace ==
    \A i, j \in Inv :
        BothMissed(i, j) =>
          /\ inv[i].fetches = 1 /\ inv[j].fetches = 1
          /\ inv[i].uploads = 1 /\ inv[j].uploads = 1
          /\ inv[i].uploadKey = inv[j].uploadKey
          /\ inv[i].res = JsonFile(inv[i].uploadKey)
          /\ inv[j].res = inv[i].res
          /\ inv[i].res.success /\ inv[i].res.status = 200
          /\ {k \in store : k \in {inv[i].uploadKey, inv[j].uploadKey}}
                = {inv[i].res.fileId}

\* The race on a track URL: neither invocation started after the other
\* had responded.
C20_Witness ==
    \E i, j \in Inv :
        /\ BothMissed(i, j)
        /\ inv[i].req.url = UrlTrack
        /\ i \notin inv[j].after /\ j \notin inv[i].after

\* C21: an invocation issues at most one upstream fetch, and a resolve
\* invocation at most one existence probe and at most one blob-store
\* write, whatever those calls return.
C21_NoRetries ==
    \A i \in Inv :
        /\ inv[i].fetches <= 1
        /\ inv[i].probes <= 1
        /\ inv[i].uploads <= 1
        /\ variant = "stream" => inv[i].probes = 0 /\ inv[i].uploads = 0

\* A failed fetch and a failed write, each made once and answered.
C21_Witness ==
    \E i, j \in Inv :
        /\ Done(i) /\ inv[i].upstream = UpFailed
        /\ inv[i].probes = 1 /\ inv[i].fetches = 1
        /\ Done(j) /\ inv[j].upload \in StoreErrors
        /\ inv[j].probe = "error" /\ inv[j].uploads = 1

-----------------------------------------------------------------------------
(* manage-playlists (src/manage-playlists/src/main.ts)                     *)
(* Documents are records; ids, track ids and positions are integers, 0     *)
(* standing for an id that is absent or empty.  The client is built with   *)
(* the API key, so document permissions do not restrict its calls.         *)

Users == {"u1", "u2"}

\* databases.listDocuments returns at most this many documents when the
\* queries hold no Query.limit.
DefaultLimit == 25

\* ID.unique() in slot i: an id no other document has.
NewId(i) == 100 + i

NextSeq(coll) ==
    IF coll = {} THEN 1
    ELSE 1 + (CHOOSE n \in {d.seq : d \in coll} : \A d \in coll : d.seq <= n)

\* S in ascending order of k, ties in order of creation.
RECURSIVE OrderAsc(_, _)
OrderAsc(S, k) ==
    IF S = {} THEN <<>>
    ELSE LET d == CHOOSE x \in S :
                    \A y \in S : \/ k[x] < k[y]
                                 \/ k[x] = k[y] /\ x.seq <= y.seq
         IN  <<d>> \o OrderAsc(S \ {d}, k)

Page(docs, limit) ==
    SubSeq(docs, 1, IF Len(docs) < limit THEN Len(docs) ELSE limit)

\* listDocuments(coll, [Query.equal..., Query.order..., Query.limit]):
\* S the documents that match, k the sort key.
ListDocuments(S, k, limit) == Page(OrderAsc(S, k), limit)

BySeq(S) == [d \in S |-> d.seq]

ByPosition(S) == [d \in S |-> d.position]

ByPositionDesc(S) == [d \in S |-> 0 - d.position]

Playlist(id, seq, user_id, name, description, is_public) ==
    [id |-> id, seq |-> seq, user_id |-> user_id, name |-> name,
     description |-> description, is_public |-> is_public]

NoPlaylist == Playlist(0, 0, "", "", Null, FALSE)

PlaylistTrack(id, seq, playlist_id, track_id, track_source, position) ==
    [id |-> id, seq |-> seq, playlist_id |-> playlist_id,
     track_id |-> track_id, track_source |-> track_source,
     position |-> position]

\* String.prototype.trim on the names and descriptions used here.
Trim(str) ==
    CASE str = "  "     -> ""
      [] str = " Road " -> "Road"
      [] OTHER          -> str

NoPosition == 0 - 1

\* The parsed body; parse tells what JSON.parse makes of req.body: "ok",
\* "empty" (no body: {}) or "bad" (SyntaxError).
PBody(parse, action, playlistId, name, description, trackId, position) ==
    [parse |-> parse, action |-> action, playlistId |-> playlistId,
     name |-> name, description |-> description, trackId |-> trackId,
     trackSource |-> "", position |-> position]

PReq(userId, body) == [userId |-> userId, body |-> body]

NoPBody == PBody("empty", "", 0, "", Null, 0, NoPosition)

PJson(status, error, data) ==
    [status |-> status, success |-> status = 200, error |-> error,
     data |-> data]

NoPRes == PJson(0, "", <<>>)

NotFound == "Document with the requested ID could not be found."

ServerError == "Server Error"

IdlePInv ==
    [pc |-> "idle", userId |-> "", body |-> NoPBody, playlist |-> NoPlaylist,
     queue |-> <<>>, listed |-> <<>>, lists |-> 0, nextPosition |-> 0,
     res |-> NoPRes]

\* The handler returns res.json(...): its local variables are gone.
PRespond(rec, response) ==
    [rec EXCEPT !.pc = "done", !.res = response, !.queue = <<>>,
                !.nextPosition = 0]

\* The playlist_tracks documents of a playlist.
TracksOf(playlistId) == {t \in playlist_tracks : t.playlist_id = playlistId}

PairDocs(playlistId, trackId) ==
    {t \in TracksOf(playlistId) : t.track_id = trackId}

\* The proxy is not part of the deployment.
NoProxy ==
    /\ variant = "stream"
    /\ inv = [i \in Inv |-> IdleInv]
    /\ store = {}
    /\ parts = <<>>
    /\ keys = <<>>
    /\ vreq = NoReq
    /\ vres = <<>>

\* Sizes of the first playlist at the start.
TrackCounts == {0, 1}

\* What the playlist manager leaves alone.
plOthers == <<proxyVars, favVars, histVars, admVars>>

PlInit ==
    /\ NoProxy
    /\ NoFavoritesManager /\ NoHistoryTracker /\ NoAdminIngestion
    /\ playlists = {Playlist(1, 1, "u1", "Mix", Null, FALSE),
                    Playlist(2, 2, "u1", "Hits", Null, TRUE)}
    /\ \E n \in TrackCounts :
          playlist_tracks =
              {PlaylistTrack(t, t, 1, t, "jamendo", t - 1) : t \in 1..n}
                  \cup {PlaylistTrack(50, 50, 2, 1, "jamendo", 0)}
    /\ pinv = [i \in Inv |-> IdlePInv]

\* What either user sends.
PBodies ==
    {PBody("ok", "read", 1, "", Null, 0, NoPosition),
     PBody("ok", "read", 2, "", Null, 0, NoPosition),
     PBody("ok", "update", 1, " Road ", "  ", 0, NoPosition),
     PBody("ok", "delete", 1, "", Null, 0, NoPosition),
     PBody("ok", "add_track", 1, "", Null, 1, NoPosition),
     PBody("ok", "add_track", 1, "", Null, 30, NoPosition),
     PBody("ok", "remove_track", 1, "", Null, 1, NoPosition)}

PlRequests ==
    {PReq(u, b) : u \in Users, b \in PBodies}
        \cup {PReq("", PBody("ok", "delete", 1, "", Null, 0, NoPosition)),
              PReq("u1", PBody("bad", "", 0, "", Null, 0, NoPosition)),
              PReq("u1", PBody("empty", "", 0, "", Null, 0, NoPosition)),
              PReq("u2", PBody("ok", "create", 0, " Road ", Null, 0, NoPosition)),
              PReq("u2", PBody("ok", "create", 0, "  ", Null, 0, NoPosition)),
              PReq("u2", PBody("ok", "list", 0, "", Null, 0, NoPosition)),
              PReq("u2", PBody("ok", "read", 9, "", Null, 0, NoPosition)),
              PReq("u2", PBody("ok", "read", 0, "", Null, 0, NoPosition)),
              PReq("u1", PBody("ok", "add_track", 1, "", Null, 0, 5)),
              PReq("u1", PBody("ok", "remove_track", 1, "", Null, 30, NoPosition))}

PCanStart(i) ==
    /\ pinv[i].pc = "idle"
    /\ \A j \in Inv : j < i => pinv[j].pc # "idle"

\* A call on the database rejects: the top-level catch answers 500 with
\* the message of the error (main.ts:278-282).
PThrow(rec, message) == PRespond(rec, PJson(500, message, <<>>))

\* main.ts:62-276: the switch up to the first call on the database; pc is
\* the call the handler goes on to, "done" when it has answered.
PlDispatch(b) ==
    LET answer(status, error) == [pc |-> "done", res |-> PJson(status, error, <<>>)]
        goto(pc) == [pc |-> pc, res |-> NoPRes]
    IN  CASE b.action = "create" ->
               IF Trim(b.name) = "" THEN answer(400, "Name is required")
               ELSE goto("create")
          [] b.action = "list" -> goto("list")
          [] b.action = "read" ->
               IF b.playlistId = 0 THEN answer(400, "Playlist ID required")
               ELSE goto("readGet")
          [] b.action = "update" ->
               IF b.playlistId = 0 THEN answer(400, "Playlist ID required")
               ELSE goto("update")
          [] b.action = "delete" ->
               IF b.playlistId = 0 THEN answer(400, "Playlist ID required")
               ELSE goto("deleteList")
          [] b.action = "add_track" ->
               IF b.playlistId = 0 \/ b.trackId = 0
               THEN answer(400, "Playlist ID and Track ID required")
               ELSE goto("addCheck")
          [] b.action = "remove_track" ->
               IF b.playlistId = 0 \/ b.trackId = 0
               THEN answer(400, "Playlist ID and Track ID required")
               ELSE goto("removeList")
          [] OTHER -> answer(400, "Invalid action")

\* main.ts:36-62: the handler up to its first await
PlStart(i, r) ==
    /\ PCanStart(i)
    /\ r \in PlRequests
    /\ LET b == IF r.body.parse = "empty" THEN NoPBody ELSE r.body
           rec == [pinv[i] EXCEPT !.userId = r.userId, !.body = b]
           d == PlDispatch(b)
       IN  pinv' = [pinv EXCEPT ![i] =
             IF r.userId = ""
             THEN PRespond(rec, PJson(401, "Unauthorized", <<>>))
             ELSE IF r.body.parse = "bad"
             THEN PThrow(rec, "Unexpected token")
             ELSE [rec EXCEPT !.pc = d.pc, !.res = d.res]]
    /\ UNCHANGED <<plOthers, playlists, playlist_tracks>>

\* description?.trim() || null
TrimOrNull(description) ==
    IF description = Null \/ Trim(description) = "" THEN Null
    ELSE Trim(description)

\* main.ts:68-85
PlCreate(i, ok) ==
    /\ pinv[i].pc = "create"
    /\ LET rec == pinv[i]
           doc == Playlist(NewId(i), NextSeq(playlists), rec.userId,
                           Trim(rec.body.name),
                           TrimOrNull(rec.body.description), FALSE)
       IN  IF ok
           THEN /\ playlists' = playlists \cup {doc}
                /\ pinv' = [pinv EXCEPT ![i] =
                              PRespond(rec, PJson(200, "", <<doc>>))]
           ELSE /\ playlists' = playlists
                /\ pinv' = [pinv EXCEPT ![i] = PThrow(rec, ServerError)]
    /\ UNCHANGED <<plOthers, playlist_tracks>>

\* main.ts:89-97
PlList(i, ok) ==
    /\ pinv[i].pc = "list"
    /\ LET rec == pinv[i]
           mine == {p \in playlists : p.user_id = rec.userId}
           docs == ListDocuments(mine, [p \in mine |-> 0 - p.seq], DefaultLimit)
       IN  pinv' = [pinv EXCEPT ![i] =
             IF ok THEN PRespond(rec, PJson(200, "", docs))
             ELSE PThrow(rec, ServerError)]
    /\ UNCHANGED <<plOthers, playlists, playlist_tracks>>

\* Faulty variant: the test on is_public inverted.
ReadAllowed_private(playlist, userId) ==
    playlist.user_id = userId \/ ~playlist.is_public

\* main.ts:112: ownership or public
ReadAllowed(playlist, userId) ==
    playlist.user_id = userId \/ playlist.is_public

\* main.ts:105-114: getDocument settles, then the access check
PlReadGet(i, ok) ==
    /\ pinv[i].pc = "readGet"
    /\ LET rec == pinv[i]
           found == {p \in playlists : p.id = rec.body.playlistId}
       IN  pinv' = [pinv EXCEPT ![i] =
             IF ~ok THEN PThrow(rec, ServerError)
             ELSE IF found = {} THEN PThrow(rec, NotFound)
             ELSE LET playlist == CHOOSE p \in found : TRUE
                  IN  IF ~ReadAllowed(playlist, rec.userId)
                      THEN PRespond([rec EXCEPT !.playlist = playlist],
                                    PJson(403, "Access denied", <<>>))
                      ELSE [rec EXCEPT !.pc = "readList",
                                       !.playlist = playlist]]
    /\ UNCHANGED <<plOthers, playlists, playlist_tracks>>

\* main.ts:117-150: the tracks are listed in order of position; a track
\* whose track_source is not 'appwrite' is returned as listed.
PlReadList(i, ok) ==
    /\ pinv[i].pc = "readList"
    /\ LET rec == pinv[i]
           mine == TracksOf(rec.body.playlistId)
           docs == ListDocuments(mine, ByPosition(mine), DefaultLimit)
       IN  pinv' = [pinv EXCEPT ![i] =
             IF ok
             THEN PRespond([rec EXCEPT !.listed = docs, !.lists = @ + 1],
                           PJson(200, "", <<rec.playlist>> \o docs))
             ELSE PThrow([rec EXCEPT !.lists = @ + 1], ServerError)]
    /\ UNCHANGED <<plOthers, playlists, playlist_tracks>>

\* main.ts:158-169
PlUpdate(i, ok) ==
    /\ pinv[i].pc = "update"
    /\ LET rec == pinv[i]
           b == rec.body
           found == {p \in playlists : p.id = b.playlistId}
           old == CHOOSE p \in found : TRUE
           updated == [old EXCEPT
                         !.name = IF Trim(b.name) # "" THEN Trim(b.name) ELSE @,
                         !.description = IF b.description # Null
                                         THEN TrimOrNull(b.description) ELSE @]
       IN  IF ok /\ found # {}
           THEN /\ playlists' = (playlists \ {old}) \cup {updated}
                /\ pinv' = [pinv EXCEPT ![i] =
                              PRespond(rec, PJson(200, "", <<updated>>))]
           ELSE /\ playlists' = playlists
                /\ pinv' = [pinv EXCEPT ![i] =
                              PThrow(rec, IF ok THEN NotFound ELSE ServerError)]
    /\ UNCHANGED <<plOthers, playlist_tracks>>

\* Where the delete loop goes on: the next listed track, or the playlist.
AfterDeleted(queue) == IF queue = <<>> THEN "deletePlaylist" ELSE "deleteTrack"

\* main.ts:178-182
PlDeleteList(i, ok) ==
    /\ pinv[i].pc = "deleteList"
    /\ LET rec == pinv[i]
           mine == TracksOf(rec.body.playlistId)
           docs == ListDocuments(mine, BySeq(mine), DefaultLimit)
       IN  pinv' = [pinv EXCEPT ![i] =
             IF ok
             THEN [rec EXCEPT !.pc = AfterDeleted(docs), !.listed = docs,
                              !.queue = docs, !.lists = @ + 1]
             ELSE PThrow([rec EXCEPT !.lists = @ + 1], ServerError)]
    /\ UNCHANGED <<plOthers, playlists, playlist_tracks>>

\* main.ts:184-186: one turn of the loop
PlDeleteTrack(i, ok) ==
    /\ pinv[i].pc = "deleteTrack"
    /\ LET rec == pinv[i]
           found == {t \in playlist_tracks : t.id = Head(rec.queue).id}
       IN  IF ok /\ found # {}
           THEN /\ playlist_tracks' = playlist_tracks \ found
                /\ pinv' = [pinv EXCEPT ![i] =
                              [rec EXCEPT !.queue = Tail(@),
                                          !.pc = AfterDeleted(Tail(rec.queue))]]
           ELSE /\ playlist_tracks' = playlist_tracks
                /\ pinv' = [pinv EXCEPT ![i] =
                              PThrow(rec, IF ok THEN NotFound ELSE ServerError)]
    /\ UNCHANGED <<plOthers, playlists>>

\* main.ts:188-189
PlDeletePlaylist(i, ok) ==
    /\ pinv[i].pc = "deletePlaylist"
    /\ LET rec == pinv[i]
           found == {p \in playlists : p.id = rec.body.playlistId}
       IN  IF ok /\ found # {}
           THEN /\ playlists' = playlists \ found
                /\ pinv' = [pinv EXCEPT ![i] = PRespond(rec, PJson(200, "", <<>>))]
           ELSE /\ playlists' = playlists
                /\ pinv' = [pinv EXCEPT ![i] =
                              PThrow(rec, IF ok THEN NotFound ELSE ServerError)]
    /\ UNCHANGED <<plOthers, playlist_tracks>>

\* main.ts:198-209: the duplicate check
PlAddCheck(i, ok) ==
    /\ pinv[i].pc = "addCheck"
    /\ LET rec == [pinv[i] EXCEPT !.lists = @ + 1]
           existing == PairDocs(rec.body.playlistId, rec.body.trackId)
       IN  pinv' = [pinv EXCEPT ![i] =
             IF ~ok THEN PThrow(rec, ServerError)
             ELSE IF existing # {}
             THEN PRespond(rec, PJson(409, "Track already in playlist", <<>>))
             ELSE [rec EXCEPT !.pc = "addLast"]]
    /\ UNCHANGED <<plOthers, playlists, playlist_tracks>>

\* main.ts:212-224
PlAddLast(i, ok) ==
    /\ pinv[i].pc = "addLast"
    /\ LET rec == [pinv[i] EXCEPT !.lists = @ + 1]
           mine == TracksOf(rec.body.playlistId)
           lastTrack == ListDocuments(mine, ByPositionDesc(mine), 1)
       IN  pinv' = [pinv EXCEPT ![i] =
             IF ~ok THEN PThrow(rec, ServerError)
             ELSE [rec EXCEPT !.pc = "addCreate",
                     !.nextPosition = IF Len(lastTrack) > 0
                                      THEN lastTrack[1].position + 1 ELSE 0]]
    /\ UNCHANGED <<plOthers, playlists, playlist_tracks>>

\* main.ts:226-244
PlAddCreate(i, ok) ==
    /\ pinv[i].pc = "addCreate"
    /\ LET rec == pinv[i]
           b == rec.body
           doc == PlaylistTrack(NewId(i), NextSeq(playlist_tracks),
                    b.playlistId, b.trackId,
                    IF b.trackSource = "" THEN "jamendo" ELSE b.trackSource,
                    IF b.position = NoPosition THEN rec.nextPosition
                    ELSE b.position)
       IN  IF ok
           THEN /\ playlist_tracks' = playlist_tracks \cup {doc}
                /\ pinv' = [pinv EXCEPT ![i] =
                              PRespond(rec, PJson(200, "", <<doc>>))]
           ELSE /\ playlist_tracks' = playlist_tracks
                /\ pinv' = [pinv EXCEPT ![i] = PThrow(rec, ServerError)]
    /\ UNCHANGED <<plOthers, playlists>>

\* main.ts:252-263
PlRemoveList(i, ok) ==
    /\ pinv[i].pc = "removeList"
    /\ LET rec == [pinv[i] EXCEPT !.lists = @ + 1]
           mine == PairDocs(rec.body.playlistId, rec.body.trackId)
           tracks == ListDocuments(mine, BySeq(mine), DefaultLimit)
       IN  pinv' = [pinv EXCEPT ![i] =
             IF ~ok THEN PThrow(rec, ServerError)
             ELSE IF Len(tracks) = 0
             THEN PRespond(rec, PJson(404, "Track not in playlist", <<>>))
             ELSE [rec EXCEPT !.pc = "removeDelete", !.queue = <<tracks[1]>>]]
    /\ UNCHANGED <<plOthers, playlists, playlist_tracks>>

\* main.ts:265-271
PlRemoveDelete(i, ok) ==
    /\ pinv[i].pc = "removeDelete"
    /\ LET rec == pinv[i]
           found == {t \in playlist_tracks : t.id = Head(rec.queue).id}
       IN  IF ok /\ found # {}
           THEN /\ playlist_tracks' = playlist_tracks \ found
                /\ pinv' = [pinv EXCEPT ![i] =
                              PRespond([rec EXCEPT !.queue = <<>>],
                                       PJson(200, "", <<>>))]
           ELSE /\ playlist_tracks' = playlist_tracks
                /\ pinv' = [pinv EXCEPT ![i] =
                              PThrow(rec, IF ok THEN NotFound ELSE ServerError)]
    /\ UNCHANGED <<plOthers, playlists>>

PlNext ==
    \/ \E i \in Inv, r \in PlRequests : PlStart(i, r)
    \/ \E i \in Inv, ok \in BOOLEAN : PlCreate(i, ok)
    \/ \E i \in Inv, ok \in BOOLEAN : PlList(i, ok)
    \/ \E i \in Inv, ok \in BOOLEAN : PlReadGet(i, ok)
    \/ \E i \in Inv, ok \in BOOLEAN : PlReadList(i, ok)
    \/ \E i \in Inv, ok \in BOOLEAN : PlUpdate(i, ok)
    \/ \E i \in Inv, ok \in BOOLEAN : PlDeleteList(i, ok)
    \/ \E i \in Inv, ok \in BOOLEAN : PlDeleteTrack(i, ok)
    \/ \E i \in Inv, ok \in BOOLEAN : PlDeletePlaylist(i, ok)
    \/ \E i \in Inv, ok \in BOOLEAN : PlAddCheck(i, ok)
    \/ \E i \in Inv, ok \in BOOLEAN : PlAddLast(i, ok)
    \/ \E i \in Inv, ok \in BOOLEAN : PlAddCreate(i, ok)
    \/ \E i \in Inv, ok \in BOOLEAN : PlRemoveList(i, ok)
    \/ \E i \in Inv, ok \in BOOLEAN : PlRemoveDelete(i, ok)

PlSpec == PlInit /\ [][PlNext]_vars

PlTypeOK == \A i \in Inv : pinv[i].pc \in
    {"idle", "done", "create", "list", "readGet", "readList", "update",
     "deleteList", "deleteTrack", "deletePlaylist", "addCheck", "addLast",
     "addCreate", "removeList", "removeDelete"}

-----------------------------------------------------------------------------
(* manage-playlists, one invocation at a time, on a playlist that holds    *)
(* one track more than a page of listDocuments.                            *)

PlPageInit ==
    /\ NoProxy
    /\ NoFavoritesManager /\ NoHistoryTracker /\ NoAdminIngestion
    /\ playlists = {Playlist(1, 1, "u1", "Mix", Null, FALSE),
                    Playlist(2, 2, "u1", "Hits", Null, TRUE)}
    /\ playlist_tracks =
          {PlaylistTrack(t, t, 1, t, "jamendo", t - 1) : t \in 1..(DefaultLimit + 1)}
              \cup {PlaylistTrack(50, 50, 2, 1, "jamendo", 0)}
    /\ pinv = [i \in Inv |-> IdlePInv]

\* An invocation arrives when the ones before it have answered.
PlStartAlone(i, r) ==
    /\ \A j \in Inv : pinv[j].pc \in {"idle", "done"}
    /\ PlStart(i, r)

PlPageNext ==
    \/ \E i \in Inv, r \in PlRequests : PlStartAlone(i, r)
    \/ \E i \in Inv, ok \in BOOLEAN : PlCreate(i, ok)
    \/ \E i \in Inv, ok \in BOOLEAN : PlList(i, ok)
    \/ \E i \in Inv, ok \in BOOLEAN : PlReadGet(i, ok)
    \/ \E i \in Inv, ok \in BOOLEAN : PlReadList(i, ok)
    \/ \E i \in Inv, ok \in BOOLEAN : PlUpdate(i, ok)
    \/ \E i \in Inv, ok \in BOOLEAN : PlDeleteList(i, ok)
    \/ \E i \in Inv, ok \in BOOLEAN : PlDeleteTrack(i, ok)
    \/ \E i \in Inv, ok \in BOOLEAN : PlDeletePlaylist(i, ok)
    \/ \E i \in Inv, ok \in BOOLEAN : PlAddCheck(i, ok)
    \/ \E i \in Inv, ok \in BOOLEAN : PlAddLast(i, ok)
    \/ \E i \in Inv, ok \in BOOLEAN : PlAddCreate(i, ok)
    \/ \E i \in Inv, ok \in BOOLEAN : PlRemoveList(i, ok)
    \/ \E i \in Inv, ok \in BOOLEAN : PlRemoveDelete(i, ok)

PlPageSpec == PlPageInit /\ [][PlPageNext]_vars

-----------------------------------------------------------------------------
(* Properties of manage-playlists                                          *)

Mutations == {"update", "delete", "add_track", "remove_track"}

PlaylistDoc(id) == {d \in playlists : d.id = id}

\* C22: a step of an update, delete, add_track or remove_track invocation
\* by a user who is not the user_id of the target playlist changes neither
\* that playlist document nor its playlist_tracks documents.
C22_OwnerOnlyMutations ==
    [][\A i \in Inv :
         LET target == pinv[i].body.playlistId
         IN  (/\ pinv'[i] # pinv[i]
              /\ pinv[i].pc # "idle"
              /\ pinv[i].body.action \in Mutations
              /\ \E d \in PlaylistDoc(target) : d.user_id # pinv[i].userId)
             => /\ {d \in playlists' : d.id = target} = PlaylistDoc(target)
                /\ {t \in playlist_tracks' : t.playlist_id = target}
                     = TracksOf(target)]_vars

C24_TracksDeletedFirst ==
    [][\A i \in Inv :
         LET target == pinv[i].body.playlistId
         IN  (/\ pinv'[i] # pinv[i]
              /\ PlaylistDoc(target) # {}
              /\ {d \in playlists' : d.id = target} = {})
             => /\ pinv[i].body.action = "delete"
                /\ \A k \in 1..Len(pinv[i].listed) :
                      pinv[i].listed[k] \notin playlist_tracks'
                /\ {t \in playlist_tracks' : t.playlist_id = target} = {}]_vars

\* C25: there is at most one playlist_tracks document per (playlist_id,
\* track_id), and an add_track that finds the pair present creates no
\* document.
C25_NoDuplicateTrack ==
    /\ [](\A a, b \in playlist_tracks :
            (a.playlist_id = b.playlist_id /\ a.track_id = b.track_id)
                => a = b)
    /\ [][\A i \in Inv :
            (/\ pinv'[i] # pinv[i]
             /\ pinv[i].pc = "addCheck"
             /\ PairDocs(pinv[i].body.playlistId, pinv[i].body.trackId) # {})
            => /\ pinv'[i].pc = "done"
               /\ playlist_tracks' = playlist_tracks]_vars

-----------------------------------------------------------------------------
(* manage-favorites (src/manage-favorites/src/main.ts): the actions check, *)
(* add, remove and toggle.  The requests here never name the read-only     *)
(* actions list and get_ids.                                               *)

Favorite(id, seq, user_id, track_id, track_source) ==
    [id |-> id, seq |-> seq, user_id |-> user_id, track_id |-> track_id,
     track_source |-> track_source]

NoFavorite == Favorite(0, 0, "", 0, "")

FBody(parse, action, trackId) ==
    [parse |-> parse, action |-> action, trackId |-> trackId,
     trackSource |-> "jamendo"]

NoFBody == FBody("empty", "", 0)

\* res.json: isFavorite is "true", "false" or "none" (not in the body).
FJson(status, error, isFavorite, alreadyExists, data) ==
    [status |-> status, success |-> status = 200, error |-> error,
     isFavorite |-> isFavorite, alreadyExists |-> alreadyExists,
     data |-> data]

NoFRes == FJson(0, "", "none", FALSE, <<>>)

IdleFInv ==
    [pc |-> "idle", userId |-> "", body |-> NoFBody, had |-> FALSE,
     target |-> NoFavorite, res |-> NoFRes]

\* Query.equal('user_id', userId), Query.equal('track_id', trackId)
PairFavs(userId, trackId) ==
    {f \in favorites : f.user_id = userId /\ f.track_id = trackId}

FRespond(rec, response) ==
    [rec EXCEPT !.pc = "done", !.res = response, !.target = NoFavorite]

FThrow(rec, message) == FRespond(rec, FJson(500, message, "none", FALSE, <<>>))

favOthers == <<proxyVars, plVars, histVars, admVars>>

\* The favorites of the other user, and of this user: none, one, and (in
\* runs of one invocation at a time) the two documents that interleaved
\* adds leave behind.
OthersFavorites == {Favorite(2, 2, "u2", 1, "jamendo")}

OneFavorite == {Favorite(1, 1, "u1", 1, "jamendo")}

TwoFavorites == OneFavorite \cup {Favorite(3, 3, "u1", 1, "jamendo")}

FavInit ==
    /\ NoProxy
    /\ NoPlaylistManager /\ NoHistoryTracker /\ NoAdminIngestion
    /\ favorites \in {OthersFavorites, OthersFavorites \cup OneFavorite}
    /\ finv = [i \in Inv |-> IdleFInv]

FavRequests ==
    {PReq(u, FBody("ok", a, 1)) :
        u \in Users, a \in {"check", "add", "remove", "toggle"}}
        \cup {PReq("", FBody("ok", "toggle", 1)),
              PReq("u1", FBody("bad", "", 0)),
              PReq("u1", FBody("empty", "", 0)),
              PReq("u1", FBody("ok", "toggle", 0)),
              PReq("u1", FBody("ok", "add", 2)),
              PReq("u2", FBody("ok", "remove", 2))}

FCanStart(i) ==
    /\ finv[i].pc = "idle"
    /\ \A j \in Inv : j < i => finv[j].pc # "idle"

\* main.ts:53-176: the switch up to the first call on the database
FavDispatch(b) ==
    IF b.action \in {"check", "add", "remove", "toggle"}
    THEN IF b.trackId = 0
         THEN [pc |-> "done",
               res |-> FJson(400, "Track ID required", "none", FALSE, <<>>)]
         ELSE [pc |-> b.action, res |-> NoFRes]
    ELSE [pc |-> "done", res |-> FJson(400, "Invalid action", "none", FALSE, <<>>)]

\* main.ts:35-52: the handler up to its first await
FavStart(i, r) ==
    /\ FCanStart(i)
    /\ r \in FavRequests
    /\ LET b == IF r.body.parse = "empty" THEN NoFBody ELSE r.body
           rec == [finv[i] EXCEPT !.userId = r.userId, !.body = b,
                     !.had = PairFavs(r.userId, b.trackId) # {}]
           d == FavDispatch(b)
       IN  finv' = [finv EXCEPT ![i] =
             IF r.userId = ""
             THEN FRespond(rec, FJson(401, "Unauthorized", "none", FALSE, <<>>))
             ELSE IF r.body.parse = "bad"
             THEN FThrow(rec, "Unexpected token")
             ELSE [rec EXCEPT !.pc = d.pc, !.res = d.res]]
    /\ UNCHANGED <<favOthers, favorites>>

\* The listDocuments every action starts with: the documents of the pair
\* in order of creation; total counts them all.
Existing(rec) ==
    LET mine == PairFavs(rec.userId, rec.body.trackId)
    IN  [total |-> Cardinality(mine),
         documents |-> ListDocuments(mine, BySeq(mine), 1)]

\* main.ts:59-72
FavCheck(i, ok) ==
    /\ finv[i].pc = "check"
    /\ LET rec == finv[i]
       IN  finv' = [finv EXCEPT ![i] =
             IF ~ok THEN FThrow(rec, ServerError)
             ELSE FRespond(rec, FJson(200, "",
                    IF Existing(rec).total > 0 THEN "true" ELSE "false",
                    FALSE, <<>>))]
    /\ UNCHANGED <<favOthers, favorites>>

\* main.ts:81-93: add, up to the test on existing.total
FavAdd(i, ok) ==
    /\ finv[i].pc = "add"
    /\ LET rec == finv[i]
       IN  finv' = [finv EXCEPT ![i] =
             IF ~ok THEN FThrow(rec, ServerError)
             ELSE IF Existing(rec).total > 0
             THEN FRespond(rec, FJson(200, "", "none", TRUE, <<>>))
             ELSE [rec EXCEPT !.pc = "create"]]
    /\ UNCHANGED <<favOthers, favorites>>

\* main.ts:95-110 and 161-175: createDocument settles
FavCreate(i, ok) ==
    /\ finv[i].pc = "create"
    /\ LET rec == finv[i]
           doc == Favorite(NewId(i), NextSeq(favorites), rec.userId,
                           rec.body.trackId, rec.body.trackSource)
       IN  IF ok
           THEN /\ favorites' = favorites \cup {doc}
                /\ finv' = [finv EXCEPT ![i] =
                     IF rec.body.action = "toggle"
                     THEN FRespond(rec, FJson(200, "", "true", FALSE, <<>>))
                     ELSE FRespond(rec, FJson(200, "", "none", FALSE, <<doc>>))]
           ELSE /\ favorites' = favorites
                /\ finv' = [finv EXCEPT ![i] = FThrow(rec, ServerError)]
    /\ UNCHANGED favOthers

\* main.ts:118-135: remove, up to the test on existing.documents.length
\* (the list has no Query.limit; the documents of one pair fill no page).
FavRemove(i, ok) ==
    /\ finv[i].pc = "remove"
    /\ LET rec == finv[i]
           mine == PairFavs(rec.userId, rec.body.trackId)
           documents == ListDocuments(mine, BySeq(mine), DefaultLimit)
       IN  finv' = [finv EXCEPT ![i] =
             IF ~ok THEN FThrow(rec, ServerError)
             ELSE IF Len(documents) > 0
             THEN [rec EXCEPT !.pc = "delete", !.target = documents[1]]
             ELSE FRespond(rec, FJson(200, "", "none", FALSE, <<>>))]
    /\ UNCHANGED <<favOthers, favorites>>

\* main.ts:143-160: toggle, up to the test on existing.total
FavToggle(i, ok) ==
    /\ finv[i].pc = "toggle"
    /\ LET rec == finv[i]
       IN  finv' = [finv EXCEPT ![i] =
             IF ~ok THEN FThrow(rec, ServerError)
             ELSE IF Existing(rec).total > 0
             THEN [rec EXCEPT !.pc = "delete",
                              !.target = Existing(rec).documents[1]]
             ELSE [rec EXCEPT !.pc = "create"]]
    /\ UNCHANGED <<favOthers, favorites>>

\* main.ts:127-134 and 155-160: deleteDocument settles
FavDelete(i, ok) ==
    /\ finv[i].pc = "delete"
    /\ LET rec == finv[i]
           found == {f \in favorites : f.id = rec.target.id}
       IN  IF ok /\ found # {}
           THEN /\ favorites' = favorites \ found
                /\ finv' = [finv EXCEPT ![i] =
                     FRespond(rec, FJson(200, "",
                        IF rec.body.action = "toggle" THEN "false" ELSE "none",
                        FALSE, <<>>))]
           ELSE /\ favorites' = favorites
                /\ finv' = [finv EXCEPT ![i] =
                              FThrow(rec, IF ok THEN NotFound ELSE ServerError)]
    /\ UNCHANGED favOthers

FavNext ==
    \/ \E i \in Inv, r \in FavRequests : FavStart(i, r)
    \/ \E i \in Inv, ok \in BOOLEAN : FavCheck(i, ok)
    \/ \E i \in Inv, ok \in BOOLEAN : FavAdd(i, ok)
    \/ \E i \in Inv, ok \in BOOLEAN : FavCreate(i, ok)
    \/ \E i \in Inv, ok \in BOOLEAN : FavRemove(i, ok)
    \/ \E i \in Inv, ok \in BOOLEAN : FavToggle(i, ok)
    \/ \E i \in Inv, ok \in BOOLEAN : FavDelete(i, ok)

FavSpec == FavInit /\ [][FavNext]_vars

\* One invocation at a time.
FavSeqInit ==
    /\ NoProxy
    /\ NoPlaylistManager /\ NoHistoryTracker /\ NoAdminIngestion
    /\ favorites \in {OthersFavorites, OthersFavorites \cup OneFavorite,
                      OthersFavorites \cup TwoFavorites}
    /\ finv = [i \in Inv |-> IdleFInv]

FavStartAlone(i, r) ==
    /\ \A j \in Inv : finv[j].pc \in {"idle", "done"}
    /\ FavStart(i, r)

FavSeqNext ==
    \/ \E i \in Inv, r \in FavRequests : FavStartAlone(i, r)
    \/ \E i \in Inv, ok \in BOOLEAN : FavCheck(i, ok)
    \/ \E i \in Inv, ok \in BOOLEAN : FavAdd(i, ok)
    \/ \E i \in Inv, ok \in BOOLEAN : FavCreate(i, ok)
    \/ \E i \in Inv, ok \in BOOLEAN : FavRemove(i, ok)
    \/ \E i \in Inv, ok \in BOOLEAN : FavToggle(i, ok)
    \/ \E i \in Inv, ok \in BOOLEAN : FavDelete(i, ok)

FavSeqSpec == FavSeqInit /\ [][FavSeqNext]_vars

-----------------------------------------------------------------------------
(* Properties of manage-favorites                                          *)

\* C26: there is at most one favorites document per (user_id, track_id),
\* and an add that finds the track favorited creates nothing and answers
\* alreadyExists:true.
C26_UniqueFavorite ==
    /\ [](\A a, b \in favorites :
            (a.user_id = b.user_id /\ a.track_id = b.track_id) => a = b)
    /\ [][\A i \in Inv :
            (/\ finv'[i] # finv[i]
             /\ finv[i].pc = "add"
             /\ PairFavs(finv[i].userId, finv[i].body.trackId) # {}
             /\ finv'[i].res.status # 500)
            => /\ finv'[i].pc = "done"
               /\ finv'[i].res.alreadyExists
               /\ favorites' = favorites]_vars

\* Invocation i has answered a toggle with success.
Toggled(i) ==
    /\ finv[i].body.action = "toggle"
    /\ finv[i].pc = "done"
    /\ finv[i].res.success

\* Invocation j comes right after i, for the same user and track.
FollowsFor(i, j) ==
    /\ j = i + 1
    /\ finv[j].pc = "done"
    /\ finv[j].userId = finv[i].userId
    /\ finv[j].body.trackId = finv[i].body.trackId

\* C27: a toggle run alone answers isFavorite:true exactly when no
\* favorite existed before; a check right after it answers the same
\* isFavorite; two toggles in a row leave the favorite state as it was;
\* a toggle leaves the favorites of other users alone.
C27_ToggleFlips ==
    /\ [](\A i \in Inv :
            Toggled(i) =>
              /\ finv[i].res.isFavorite = "true" <=> ~finv[i].had
              /\ \A j \in Inv :
                   (/\ FollowsFor(i, j)
                    /\ finv[j].body.action = "check"
                    /\ finv[j].res.success)
                   => finv[j].res.isFavorite = finv[i].res.isFavorite
              /\ \A j \in Inv :
                   (/\ FollowsFor(i, j)
                    /\ Toggled(j)
                    /\ \A k \in Inv : k > j => finv[k].pc = "idle")
                   => (PairFavs(finv[i].userId, finv[i].body.trackId) # {})
                         = finv[i].had)
    /\ [][\A i \in Inv :
            (finv'[i] # finv[i] /\ finv[i].body.action = "toggle")
            => {f \in favorites' : f.user_id # finv[i].userId}
                 = {f \in favorites : f.user_id # finv[i].userId}]_vars

-----------------------------------------------------------------------------
(* record-history (src/record-history/src/main.ts): the actions record,    *)
(* update_position, get_resume and clear, one invocation at a time.  The   *)
(* requests here never name the read-only action get_history.  Positions   *)
(* in a request are in tenths of a second, stored positions in seconds.    *)

\* main.ts:34
MAX_HISTORY == 50

\* Math.floor of a position given in tenths.
MathFloor(position) == position \div 10

\* A recently_played document; of track_id and episode_id one is set.
Entry(id, seq, user_id, track_id, episode_id, last_position, played_at) ==
    [id |-> id, seq |-> seq, user_id |-> user_id, track_id |-> track_id,
     episode_id |-> episode_id, last_position |-> last_position,
     played_at |-> played_at]

NoEntry == Entry(0, 0, "", 0, 0, 0, 0)

HBody(parse, action, itemId, isEpisode, position, metadata) ==
    [parse |-> parse, action |-> action, itemId |-> itemId,
     isEpisode |-> isEpisode, position |-> position, metadata |-> metadata]

\* {} after the defaults isEpisode = false, position = 0 (main.ts:56)
NoHBody == HBody("empty", "", 0, FALSE, 0, FALSE)

HJson(status, error, position, data) ==
    [status |-> status, success |-> status = 200, error |-> error,
     position |-> position, data |-> data]

NoHRes == HJson(0, "", NoPosition, <<>>)

IdleHInv ==
    [pc |-> "idle", userId |-> "", body |-> NoHBody, had |-> FALSE,
     wrote |-> NoPosition, target |-> NoEntry, entry |-> NoEntry,
     queue |-> <<>>, res |-> NoHRes]

HRespond(rec, response) ==
    [rec EXCEPT !.pc = "done", !.res = response, !.target = NoEntry,
                !.queue = <<>>]

HThrow(rec, message) == HRespond(rec, HJson(500, message, NoPosition, <<>>))

histOthers == <<proxyVars, plVars, favVars, admVars>>

\* Query.equal('user_id', userId)
EntriesOf(userId) == {e \in recently_played : e.user_id = userId}

\* record: Query.equal('episode_id' or 'track_id', itemId), by isEpisode
KindEntries(userId, itemId, isEpisode) ==
    {e \in EntriesOf(userId) :
        IF isEpisode THEN e.episode_id = itemId ELSE e.track_id = itemId}

\* update_position, get_resume: Query.or([Query.equal('track_id', itemId),
\* Query.equal('episode_id', itemId)])
ItemEntries(userId, itemId) ==
    {e \in EntriesOf(userId) : e.track_id = itemId \/ e.episode_id = itemId}

\* A history of n tracks of u1, played in the order of their ids.
HistoryOf(n) == {Entry(t, t, "u1", t, 0, 3, t) : t \in 1..n}

OthersHistory == {Entry(90, 90, "u2", 1, 0, 7, 90)}

HistInit ==
    /\ NoProxy
    /\ NoPlaylistManager /\ NoFavoritesManager /\ NoAdminIngestion
    /\ \E n \in {0, 1, MAX_HISTORY} :
          recently_played = HistoryOf(n) \cup OthersHistory
    /\ track_ids = {1}
    /\ clock = 100
    /\ hinv = [i \in Inv |-> IdleHInv]

HistRequests ==
    {PReq("u1", HBody("ok", "record", 1, FALSE, 125, FALSE)),
     PReq("u1", HBody("ok", "record", 1, TRUE, 307, FALSE)),
     PReq("u1", HBody("ok", "record", 60, FALSE, 42, TRUE)),
     PReq("u1", HBody("ok", "record", 1, FALSE, 81, TRUE)),
     PReq("u1", HBody("ok", "record", 0, FALSE, 42, FALSE)),
     PReq("u1", HBody("ok", "update_position", 1, FALSE, 99, FALSE)),
     PReq("u1", HBody("ok", "update_position", 70, FALSE, 99, FALSE)),
     PReq("u1", HBody("ok", "get_resume", 1, FALSE, 0, FALSE)),
     PReq("u1", HBody("ok", "get_resume", 70, FALSE, 0, FALSE)),
     PReq("u1", HBody("ok", "clear", 0, FALSE, 0, FALSE)),
     PReq("u1", HBody("bad", "", 0, FALSE, 0, FALSE)),
     PReq("u1", HBody("empty", "", 0, FALSE, 0, FALSE)),
     PReq("u2", HBody("ok", "record", 1, FALSE, 55, FALSE)),
     PReq("u2", HBody("ok", "get_resume", 1, FALSE, 0, FALSE)),
     PReq("", HBody("ok", "record", 1, FALSE, 55, FALSE))}

\* main.ts:59-290: the switch up to the first call on the database
HistDispatch(b) ==
    LET answer(status, error) ==
            [pc |-> "done", res |-> HJson(status, error, NoPosition, <<>>)]
        goto(pc) == [pc |-> pc, res |-> NoHRes]
    IN  CASE b.action \in {"record", "update_position", "get_resume"}
                /\ b.itemId = 0 -> answer(400, "Item ID required")
          [] b.action = "record" /\ b.itemId # 0 ->
               IF b.metadata /\ ~b.isEpisode THEN goto("ingestGet")
               ELSE goto("recordList")
          [] b.action = "update_position" /\ b.itemId # 0 -> goto("updList")
          [] b.action = "get_resume" /\ b.itemId # 0 -> goto("resumeList")
          [] b.action = "clear" -> goto("clearList")
          [] OTHER -> answer(400, "Invalid action")

\* main.ts:36-59: the handler up to its first await, when the invocations
\* before it have answered
HistStart(i, r) ==
    /\ hinv[i].pc = "idle"
    /\ \A j \in Inv : j < i => hinv[j].pc = "done"
    /\ \A j \in Inv : j > i => hinv[j].pc = "idle"
    /\ r \in HistRequests
    /\ LET b == IF r.body.parse = "empty" THEN NoHBody ELSE r.body
           rec == [hinv[i] EXCEPT !.userId = r.userId, !.body = b,
                     !.had = ItemEntries(r.userId, b.itemId) # {}]
           d == HistDispatch(b)
       IN  hinv' = [hinv EXCEPT ![i] =
             IF r.userId = ""
             THEN HRespond(rec, HJson(401, "Unauthorized", NoPosition, <<>>))
             ELSE IF r.body.parse = "bad"
             THEN HThrow(rec, "Unexpected token")
             ELSE [rec EXCEPT !.pc = d.pc, !.res = d.res]]
    /\ UNCHANGED <<histOthers, recently_played, track_ids, clock>>

\* main.ts:70-128: getDocument on 'tracks' settles; only a 404 leads to
\* the ingestion, any other error is logged.
HIngestGet(i, outcome) ==
    /\ hinv[i].pc = "ingestGet"
    /\ outcome \in (IF hinv[i].body.itemId \in track_ids
                    THEN {"found"} ELSE {"notfound"}) \cup {"error"}
    /\ hinv' = [hinv EXCEPT ![i].pc =
                  IF outcome = "notfound" THEN "ingestCreate" ELSE "recordList"]
    /\ UNCHANGED <<histOthers, recently_played, track_ids, clock>>

\* main.ts:85-120: createDocument on 'tracks' settles; its rejection is
\* caught and logged.
HIngestCreate(i, ok) ==
    /\ hinv[i].pc = "ingestCreate"
    /\ track_ids' = IF ok THEN track_ids \cup {hinv[i].body.itemId}
                    ELSE track_ids
    /\ hinv' = [hinv EXCEPT ![i].pc = "recordList"]
    /\ UNCHANGED <<histOthers, recently_played, clock>>

\* main.ts:131-143: the existing entry of this kind
HRecordList(i, ok) ==
    /\ hinv[i].pc = "recordList"
    /\ LET rec == hinv[i]
           mine == KindEntries(rec.userId, rec.body.itemId, rec.body.isEpisode)
           existing == ListDocuments(mine, BySeq(mine), 1)
       IN  hinv' = [hinv EXCEPT ![i] =
             IF ~ok THEN HThrow(rec, ServerError)
             ELSE IF Len(existing) > 0
             THEN [rec EXCEPT !.pc = "recordUpdate", !.target = existing[1]]
             ELSE [rec EXCEPT !.pc = "recordCreate"]]
    /\ UNCHANGED <<histOthers, recently_played, track_ids, clock>>

\* main.ts:145-156
HRecordUpdate(i, ok) ==
    /\ hinv[i].pc = "recordUpdate"
    /\ LET rec == hinv[i]
           found == {e \in recently_played : e.id = rec.target.id}
           old == CHOOSE e \in found : TRUE
           updated == [old EXCEPT
                         !.last_position = MathFloor(rec.body.position),
                         !.played_at = clock]
       IN  IF ok /\ found # {}
           THEN /\ recently_played' = (recently_played \ {old}) \cup {updated}
                /\ hinv' = [hinv EXCEPT ![i] =
                     HRespond([rec EXCEPT !.wrote = updated.last_position],
                              HJson(200, "", NoPosition, <<updated>>))]
           ELSE /\ recently_played' = recently_played
                /\ hinv' = [hinv EXCEPT ![i] =
                              HThrow(rec, IF ok THEN NotFound ELSE ServerError)]
    /\ clock' = IF ok /\ (\E e \in recently_played : e.id = hinv[i].target.id)
                THEN clock + 1 ELSE clock
    /\ UNCHANGED <<histOthers, track_ids>>

\* main.ts:158-175
HRecordCreate(i, ok) ==
    /\ hinv[i].pc = "recordCreate"
    /\ LET rec == hinv[i]
           b == rec.body
           entry == Entry(NewId(i), NextSeq(recently_played), rec.userId,
                          IF b.isEpisode THEN 0 ELSE b.itemId,
                          IF b.isEpisode THEN b.itemId ELSE 0,
                          MathFloor(b.position), clock)
       IN  IF ok
           THEN /\ recently_played' = recently_played \cup {entry}
                /\ hinv' = [hinv EXCEPT ![i] =
                     [rec EXCEPT !.pc = "cleanupList", !.entry = entry,
                                 !.wrote = entry.last_position]]
           ELSE /\ recently_played' = recently_played
                /\ hinv' = [hinv EXCEPT ![i] = HThrow(rec, ServerError)]
    /\ clock' = IF ok THEN clock + 1 ELSE clock
    /\ UNCHANGED <<histOthers, track_ids>>

\* What the handler answers when a loop of deleteDocument calls is over.
AfterLoop(rec) ==
    IF rec.body.action = "record"
    THEN HJson(200, "", NoPosition, <<rec.entry>>)
    ELSE HJson(200, "", NoPosition, <<>>)

\* main.ts:298-314 (cleanupOldEntries) up to the loop: the list has no
\* Query.limit.
HCleanupList(i, ok) ==
    /\ hinv[i].pc = "cleanupList"
    /\ LET rec == hinv[i]
           mine == EntriesOf(rec.userId)
           history == ListDocuments(mine, [e \in mine |-> 0 - e.played_at],
                                    DefaultLimit)
       IN  hinv' = [hinv EXCEPT ![i] =
             IF ~ok THEN HThrow(rec, ServerError)
             ELSE IF Len(history) > MAX_HISTORY
             THEN [rec EXCEPT !.pc = "deleteLoop",
                     !.queue = SubSeq(history, MAX_HISTORY + 1, Len(history))]
             ELSE HRespond(rec, AfterLoop(rec))]
    /\ UNCHANGED <<histOthers, recently_played, track_ids, clock>>

\* main.ts:272-277: clear lists the caller's entries, with no Query.limit
HClearList(i, ok) ==
    /\ hinv[i].pc = "clearList"
    /\ LET rec == hinv[i]
           mine == EntriesOf(rec.userId)
           history == ListDocuments(mine, BySeq(mine), DefaultLimit)
       IN  hinv' = [hinv EXCEPT ![i] =
             IF ~ok THEN HThrow(rec, ServerError)
             ELSE IF Len(history) > 0
             THEN [rec EXCEPT !.pc = "deleteLoop", !.queue = history]
             ELSE HRespond(rec, AfterLoop(rec))]
    /\ UNCHANGED <<histOthers, recently_played, track_ids, clock>>

\* main.ts:278-280 and 309-311: one turn of a loop of deleteDocument calls
HDeleteNext(i, ok) ==
    /\ hinv[i].pc = "deleteLoop"
    /\ LET rec == hinv[i]
           found == {e \in recently_played : e.id = Head(rec.queue).id}
       IN  IF ok /\ found # {}
           THEN /\ recently_played' = recently_played \ found
                /\ hinv' = [hinv EXCEPT ![i] =
                     IF Tail(rec.queue) = <<>>
                     THEN HRespond(rec, AfterLoop(rec))
                     ELSE [rec EXCEPT !.queue = Tail(@)]]
           ELSE /\ recently_played' = recently_played
                /\ hinv' = [hinv EXCEPT ![i] =
                              HThrow(rec, IF ok THEN NotFound ELSE ServerError)]
    /\ UNCHANGED <<histOthers, track_ids, clock>>

\* main.ts:186-209 and 253-270: the entry update_position and get_resume
\* look up
HItemList(i, ok) ==
    /\ hinv[i].pc \in {"updList", "resumeList"}
    /\ LET rec == hinv[i]
           mine == ItemEntries(rec.userId, rec.body.itemId)
           existing == ListDocuments(mine, BySeq(mine), 1)
       IN  hinv' = [hinv EXCEPT ![i] =
             IF ~ok THEN HThrow(rec, ServerError)
             ELSE IF rec.pc = "resumeList"
             THEN HRespond(rec, HJson(200, "",
                    IF Len(existing) > 0 THEN existing[1].last_position ELSE 0,
                    <<>>))
             ELSE IF Len(existing) > 0
             THEN [rec EXCEPT !.pc = "updUpdate", !.target = existing[1]]
             ELSE HRespond(rec, HJson(200, "", NoPosition, <<>>))]
    /\ UNCHANGED <<histOthers, recently_played, track_ids, clock>>

\* main.ts:199-206
HUpdUpdate(i, ok) ==
    /\ hinv[i].pc = "updUpdate"
    /\ LET rec == hinv[i]
           found == {e \in recently_played : e.id = rec.target.id}
           old == CHOOSE e \in found : TRUE
           updated == [old EXCEPT
                         !.last_position = MathFloor(rec.body.position)]
       IN  IF ok /\ found # {}
           THEN /\ recently_played' = (recently_played \ {old}) \cup {updated}
                /\ hinv' = [hinv EXCEPT ![i] =
                     HRespond([rec EXCEPT !.wrote = updated.last_position],
                              HJson(200, "", NoPosition, <<>>))]
           ELSE /\ recently_played' = recently_played
                /\ hinv' = [hinv EXCEPT ![i] =
                              HThrow(rec, IF ok THEN NotFound ELSE ServerError)]
    /\ UNCHANGED <<histOthers, track_ids, clock>>

HistNext ==
    \/ \E i \in Inv, r \in HistRequests : HistStart(i, r)
    \/ \E i \in Inv, o \in {"found", "notfound", "error"} : HIngestGet(i, o)
    \/ \E i \in Inv, ok \in BOOLEAN : HIngestCreate(i, ok)
    \/ \E i \in Inv, ok \in BOOLEAN : HRecordList(i, ok)
    \/ \E i \in Inv, ok \in BOOLEAN : HRecordUpdate(i, ok)
    \/ \E i \in Inv, ok \in BOOLEAN : HRecordCreate(i, ok)
    \/ \E i \in Inv, ok \in BOOLEAN : HCleanupList(i, ok)
    \/ \E i \in Inv, ok \in BOOLEAN : HClearList(i, ok)
    \/ \E i \in Inv, ok \in BOOLEAN : HDeleteNext(i, ok)
    \/ \E i \in Inv, ok \in BOOLEAN : HItemList(i, ok)
    \/ \E i \in Inv, ok \in BOOLEAN : HUpdUpdate(i, ok)

HistSpec == HistInit /\ [][HistNext]_vars

-----------------------------------------------------------------------------
(* Properties of record-history                                            *)

\* Invocation i has answered and none has arrived since.
Latest(i) ==
    /\ hinv[i].pc = "done"
    /\ \A k \in Inv : k > i => hinv[k].pc = "idle"

\* C28: when a record has answered with success the caller has at most
\* MAX_HISTORY entries; the entries a record removes are the caller's and
\* the ones played longest ago.
C28_HistoryCapped ==
    /\ [](\A i \in Inv :
            (/\ Latest(i)
             /\ hinv[i].body.action = "record"
             /\ hinv[i].res.success)
            => Cardinality(EntriesOf(hinv[i].userId)) <= MAX_HISTORY)
    /\ [][\A i \in Inv :
            (hinv'[i] # hinv[i] /\ hinv[i].body.action = "record")
            => \A e \in recently_played :
                  (\A f \in recently_played' : f.id # e.id)
                  => /\ e.user_id = hinv[i].userId
                     /\ \A f \in recently_played' :
                           f.user_id = e.user_id
                              => e.played_at <= f.played_at]_vars

\* The item an entry is about.
ItemOf(e) == IF e.track_id # 0 THEN e.track_id ELSE e.episode_id

\* The invocations before j that wrote a position for j's user and item.
Writes(j) ==
    {i \in Inv : /\ i < j
                 /\ hinv[i].userId = hinv[j].userId
                 /\ hinv[i].body.itemId = hinv[j].body.itemId
                 /\ hinv[i].wrote # NoPosition}

\* C29: there is at most one entry per (user, item); get_resume answers
\* the floor of the position of the last record or effective
\* update_position for the item by the user, and 0 when the user has no
\* entry for the item.
C29_ResumeReadsBack ==
    /\ \A a, b \in recently_played :
          (a.user_id = b.user_id /\ ItemOf(a) = ItemOf(b)) => a = b
    /\ \A j \in Inv :
          (/\ hinv[j].body.action = "get_resume"
           /\ hinv[j].pc = "done"
           /\ hinv[j].res.success)
          => IF ~hinv[j].had
             THEN hinv[j].res.position = 0
             ELSE Writes(j) # {} =>
                    LET last == CHOOSE i \in Writes(j) :
                                    \A k \in Writes(j) : k <= i
                    IN  hinv[j].res.position = hinv[last].body.position \div 10


\* ------------------------------------------------------------------------
\* admin-upload (src/admin-upload/src/main.ts)
\* ------------------------------------------------------------------------

\* A document of 'users'; is_admin is false where the attribute is unset.
User(id, is_admin) == [id |-> id, is_admin |-> is_admin]

Track(id, title, artist, album, genre, duration, audio_file_id, cover) ==
    [coll |-> "tracks", id |-> id, title |-> title, artist |-> artist,
     album |-> album, genre |-> genre, duration |-> duration,
     audio_file_id |-> audio_file_id, cover_image_id |-> cover,
     play_count |-> 0]

Podcast(id, title, author, description, category, cover_image_id) ==
    [coll |-> "podcasts", id |-> id, title |-> title, author |-> author,
     description |-> description, category |-> category,
     cover_image_id |-> cover_image_id]

Episode(id, podcast_id, title, description, duration, audio_file_id, nr) ==
    [coll |-> "episodes", id |-> id, podcast_id |-> podcast_id,
     title |-> title, description |-> description, duration |-> duration,
     audio_file_id |-> audio_file_id, episode_number |-> nr]

\* body.data: the attributes the three content types read; an attribute
\* that is absent is Null (strings) or 0 (numbers, podcastId).
AData(title, by, audioFileId, podcastId, description, number) ==
    [title |-> title, artist |-> by, author |-> by, album |-> Null,
     genre |-> Null, description |-> description, category |-> Null,
     duration |-> number, audioFileId |-> audioFileId,
     coverImageId |-> Null, podcastId |-> podcastId,
     episodeNumber |-> number]

NoData == AData(Null, Null, Null, 0, Null, 0)

\* req.body: parse is "ok", "bad" (JSON.parse throws) or "empty" (no body);
\* hasData is whether the parsed object has a data attribute.
ABody(parse, contentType, hasData, data) ==
    [parse |-> parse, contentType |-> contentType, hasData |-> hasData,
     data |-> data]

NoABody == ABody("empty", "", FALSE, NoData)

\* An invocation: APPWRITE_API_KEY set or not, the user id header, the body.
AReq(apiKey, userId, body) ==
    [apiKey |-> apiKey, userId |-> userId, body |-> body]

AJson(status, error, data) ==
    [status |-> status, success |-> status = 200, error |-> error,
     data |-> data]

NoARes == AJson(0, "", <<>>)

IdleAInv ==
    [pc |-> "idle", apiKey |-> TRUE, userId |-> "", body |-> NoABody,
     res |-> NoARes]

ARespond(rec, response) == [rec EXCEPT !.pc = "done", !.res = response]

AThrow(rec, message) == ARespond(rec, AJson(500, message, <<>>))

admOthers == <<proxyVars, plVars, favVars, histVars>>

\* u1 is an admin, u2 is not, u3 has no 'users' document.
AdmUsers == {User("u1", TRUE), User("u2", FALSE)}

APodcast == Podcast(7, "Talks", "Ann", Null, Null, Null)

AdmInit ==
    /\ NoProxy
    /\ NoPlaylistManager /\ NoFavoritesManager /\ NoHistoryTracker
    /\ users = AdmUsers
    /\ catalog \in {{}, {APodcast}}
    /\ ainv = [i \in Inv |-> IdleAInv]

ATrackBody == ABody("ok", "track", TRUE, AData(" Road ", "Ann", "f1", 0, Null, 0))

AEpisodeBody(podcastId) ==
    ABody("ok", "episode", TRUE,
          AData("Road", Null, "f1", podcastId, " Road ", 0))

AdmRequests ==
    {AReq(TRUE, "u1", ATrackBody),
     AReq(TRUE, "u1", ABody("ok", "track", TRUE,
                            AData("  ", "Ann", "f1", 0, Null, 0))),
     AReq(TRUE, "u1", ABody("ok", "track", TRUE,
                            AData("Road", "Ann", Null, 0, Null, 0))),
     AReq(TRUE, "u1", ABody("ok", "track", FALSE, NoData)),
     AReq(TRUE, "u1", ABody("ok", "podcast", TRUE,
                            AData("Road", "Ann", Null, 0, "  ", 0))),
     AReq(TRUE, "u1", ABody("ok", "podcast", TRUE,
                            AData("Road", Null, Null, 0, Null, 0))),
     AReq(TRUE, "u1", AEpisodeBody(7)),
     AReq(TRUE, "u1", AEpisodeBody(NewId(1))),
     AReq(TRUE, "u1", AEpisodeBody(0)),
     AReq(TRUE, "u1", ABody("ok", "episode", TRUE,
                            AData("Road", Null, Null, 7, Null, 3))),
     AReq(TRUE, "u1", ABody("ok", "album", TRUE, NoData)),
     AReq(TRUE, "u1", ABody("bad", "", FALSE, NoData)),
     AReq(TRUE, "u1", ABody("empty", "", FALSE, NoData)),
     AReq(TRUE, "u2", ATrackBody),
     AReq(TRUE, "u2", AEpisodeBody(7)),
     AReq(TRUE, "u2", ABody("bad", "", FALSE, NoData)),
     AReq(TRUE, "u3", ATrackBody),
     AReq(TRUE, "", ATrackBody),
     AReq(TRUE, "", ABody("bad", "", FALSE, NoData)),
     AReq(FALSE, "", ATrackBody),
     AReq(FALSE, "u1", ATrackBody)}

ACanStart(i) ==
    /\ ainv[i].pc = "idle"
    /\ \A j \in Inv : j < i => ainv[j].pc # "idle"

\* main.ts:59-78: the API key, the user id, then the call for the user
AdmStart(i, r) ==
    /\ ACanStart(i)
    /\ r \in AdmRequests
    /\ LET b == IF r.body.parse = "empty" THEN NoABody ELSE r.body
           rec == [ainv[i] EXCEPT !.apiKey = r.apiKey, !.userId = r.userId,
                     !.body = b]
       IN  ainv' = [ainv EXCEPT ![i] =
             IF ~r.apiKey
             THEN ARespond(rec, AJson(500, "API key not configured", <<>>))
             ELSE IF r.userId = ""
             THEN ARespond(rec, AJson(401, "Unauthorized", <<>>))
             ELSE [rec EXCEPT !.pc = "getUser"]]
    /\ UNCHANGED <<admOthers, users, catalog>>

\* !str?.trim(): the attribute is absent or blank
Blank(str) == str = Null \/ Trim(str) = ""

\* value || null
OrNull(str) == IF str = "" THEN Null ELSE str

\* main.ts:83-177: the body and the switch up to the first call it makes
AdmDispatch(b) ==
    LET answer(status, error) ==
            [pc |-> "done", res |-> AJson(status, error, <<>>)]
        call(pc) == [pc |-> pc, res |-> NoARes]
        d == b.data
        undefinedData ==
            answer(500, "Cannot read properties of undefined")
    IN  CASE b.parse = "bad" -> answer(500, "Unexpected token")
          [] b.parse # "bad" /\ b.contentType = "track" ->
                IF ~b.hasData THEN undefinedData
                ELSE IF Blank(d.title) \/ Blank(d.artist)
                THEN answer(400, "Title and artist required")
                ELSE IF d.audioFileId \in {Null, ""}
                THEN answer(400, "Audio file ID required")
                ELSE call("createTrack")
          [] b.parse # "bad" /\ b.contentType = "podcast" ->
                IF ~b.hasData THEN undefinedData
                ELSE IF Blank(d.title) \/ Blank(d.author)
                THEN answer(400, "Title and author required")
                ELSE call("createPodcast")
          [] b.parse # "bad" /\ b.contentType = "episode" ->
                IF ~b.hasData THEN undefinedData
                ELSE IF d.podcastId = 0 \/ Blank(d.title)
                THEN answer(400, "Podcast ID and title required")
                ELSE IF d.audioFileId \in {Null, ""}
                THEN answer(400, "Audio file ID required")
                ELSE call("getPodcast")
          [] OTHER -> answer(400, "Invalid content type")

\* !user.is_admin is false
IsAdmin_any(user) == TRUE

IsAdmin(user) == user.is_admin

\* main.ts:78-84: the user document arrives, the admin check, the body
AdmGetUser(i, ok) ==
    /\ ainv[i].pc = "getUser"
    /\ LET rec == ainv[i]
           found == {u \in users : u.id = rec.userId}
           d == AdmDispatch(rec.body)
       IN  ainv' = [ainv EXCEPT ![i] =
             IF ~ok THEN AThrow(rec, ServerError)
             ELSE IF found = {} THEN AThrow(rec, NotFound)
             ELSE IF ~IsAdmin(CHOOSE u \in found : TRUE)
             THEN ARespond(rec, AJson(403, "Admin access required", <<>>))
             ELSE [rec EXCEPT !.pc = d.pc, !.res = d.res]]
    /\ UNCHANGED <<admOthers, users, catalog>>

\* main.ts:100-117, 127-141, 158-173: createDocument and the answer
AdmCreated(i, ok, doc) ==
    IF ok
    THEN /\ catalog' = catalog \cup {doc}
         /\ ainv' = [ainv EXCEPT ![i] =
              ARespond(ainv[i], AJson(200, "", <<doc>>))]
    ELSE /\ catalog' = catalog
         /\ ainv' = [ainv EXCEPT ![i] = AThrow(ainv[i], ServerError)]

\* main.ts:100-117
AdmCreateTrack(i, ok) ==
    /\ ainv[i].pc = "createTrack"
    /\ LET d == ainv[i].body.data
       IN  AdmCreated(i, ok,
             Track(NewId(i), Trim(d.title), Trim(d.artist),
                   TrimOrNull(d.album), TrimOrNull(d.genre), d.duration,
                   d.audioFileId, OrNull(d.coverImageId)))
    /\ UNCHANGED <<admOthers, users>>

\* main.ts:127-141
AdmCreatePodcast(i, ok) ==
    /\ ainv[i].pc = "createPodcast"
    /\ LET d == ainv[i].body.data
       IN  AdmCreated(i, ok,
             Podcast(NewId(i), Trim(d.title), Trim(d.author),
                     TrimOrNull(d.description), TrimOrNull(d.category),
                     OrNull(d.coverImageId)))
    /\ UNCHANGED <<admOthers, users>>

\* main.ts:156: await databases.getDocument(DATABASE_ID, 'podcasts', ...)
AdmGetPodcast(i, ok) ==
    /\ ainv[i].pc = "getPodcast"
    /\ LET rec == ainv[i]
           found == {p \in catalog : /\ p.coll = "podcasts"
                                     /\ p.id = rec.body.data.podcastId}
       IN  ainv' = [ainv EXCEPT ![i] =
             IF ~ok THEN AThrow(rec, ServerError)
             ELSE IF found = {} THEN AThrow(rec, NotFound)
             ELSE [rec EXCEPT !.pc = "createEpisode"]]
    /\ UNCHANGED <<admOthers, users, catalog>>

\* main.ts:158-173
AdmCreateEpisode(i, ok) ==
    /\ ainv[i].pc = "createEpisode"
    /\ LET d == ainv[i].body.data
       IN  AdmCreated(i, ok,
             Episode(NewId(i), d.podcastId, Trim(d.title),
                     TrimOrNull(d.description), d.duration, d.audioFileId,
                     IF d.episodeNumber = 0 THEN 1 ELSE d.episodeNumber))
    /\ UNCHANGED <<admOthers, users>>

AdmNext ==
    \/ \E i \in Inv, r \in AdmRequests : AdmStart(i, r)
    \/ \E i \in Inv, ok \in BOOLEAN : AdmGetUser(i, ok)
    \/ \E i \in Inv, ok \in BOOLEAN : AdmCreateTrack(i, ok)
    \/ \E i \in Inv, ok \in BOOLEAN : AdmCreatePodcast(i, ok)
    \/ \E i \in Inv, ok \in BOOLEAN : AdmGetPodcast(i, ok)
    \/ \E i \in Inv, ok \in BOOLEAN : AdmCreateEpisode(i, ok)

AdmSpec == AdmInit /\ [][AdmNext]_vars

\* The user id header of invocation i names a 'users' document with
\* is_admin set.
AdminCaller(i) == \E u \in users : u.id = ainv[i].userId /\ u.is_admin

\* The header names a 'users' document without is_admin.
NonAdminCaller(i) == \E u \in users : u.id = ainv[i].userId /\ ~u.is_admin

\* A step that changes the catalogue is the step of one invocation of an
\* admin and adds documents only; an episode it adds names a podcast that
\* was in the catalogue before the step.
CreatedByAdmin ==
    catalog' # catalog =>
        /\ catalog \subseteq catalog'
        /\ \E i \in Inv : ainv'[i] # ainv[i] /\ AdminCaller(i)
        /\ \A e \in catalog' \ catalog :
              e.coll = "episodes" =>
                  \E p \in catalog : p.coll = "podcasts" /\ p.id = e.podcast_id

\* An invocation without a user id, or of a user without is_admin, never
\* gets past the admin check, whatever its body.
StopsAtCheck(i) ==
    /\ ainv[i].userId = "" => ainv[i].pc \in {"idle", "done"}
    /\ NonAdminCaller(i) => ainv[i].pc \in {"idle", "getUser", "done"}

\* C30: a track, podcast or episode is created only by an invocation whose
\* user id names a users document with is_admin; a request with no user id
\* gets 401 and a non-admin user gets 403, before the body is parsed and
\* with no document created; an episode is created only for an existing
\* podcast.
C30_AdminOnly ==
    /\ [](\A i \in Inv :
            /\ StopsAtCheck(i)
            /\ ainv[i].pc = "done" =>
                  /\ ainv[i].userId = "" => ainv[i].res.status = 401
                  /\ NonAdminCaller(i) => ainv[i].res.status = 403)
    /\ [][CreatedByAdmin]_vars

\* C30 (amended): as C30, with the answers the check gives spelt out: 500
\* when APPWRITE_API_KEY is not set, whoever calls; otherwise 401 without a
\* user id, and for a user without is_admin 403, or 500 'Server Error' when
\* the call for the users document is rejected.
C30_AdminOnlyWhenConfigured ==
    /\ [](\A i \in Inv :
            /\ StopsAtCheck(i)
            /\ ainv[i].pc = "done" =>
                  /\ ~ainv[i].apiKey =>
                        /\ ainv[i].res.status = 500
                        /\ ainv[i].res.error = "API key not configured"
                  /\ (ainv[i].apiKey /\ ainv[i].userId = "") =>
                        ainv[i].res.status = 401
                  /\ (ainv[i].apiKey /\ NonAdminCaller(i)) =>
                        \/ ainv[i].res.status = 403
                        \/ /\ ainv[i].res.status = 500
                           /\ ainv[i].res.error = ServerError)
    /\ [][CreatedByAdmin]_vars

\* An admin has created an episode of a podcast while a user without
\* is_admin was refused with 403 on a body that does not parse.
C30_Witness ==
    /\ \E e \in catalog : e.coll = "episodes" /\ e.id >= NewId(1)
    /\ \E i \in Inv :
          /\ NonAdminCaller(i)
          /\ ainv[i].pc = "done"
          /\ ainv[i].body.parse = "bad"
          /\ ainv[i].res.status = 403

====
